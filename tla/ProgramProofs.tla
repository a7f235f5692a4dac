--------------------------- MODULE ProgramProofs ---------------------------
(***************************************************************************)
(* What holds of LaptopPrograms for every instance of its programs: a part *)
(* for each program, with the invariant its property rests on, and at the  *)
(* end the theorems about a behaviour of any one of them.                  *)
(***************************************************************************)
EXTENDS LaptopPrograms, SubsequenceTheorems

(***************************************************************************)
(* The league.                                                             *)
(***************************************************************************)
BookFields == {"markets", "balances", "holdings", "spent", "traded", "flagged", "voided",
               "forecasts", "resolutions"}

MarketFields == {"status", "shares", "resolved"}

IsBook(book) ==
    /\ book = [f \in BookFields |-> book[f]]
    /\ book.markets = [k \in DOMAIN Markets |-> book.markets[k]]
    /\ \A k \in DOMAIN Markets : book.markets[k] = [f \in MarketFields |-> book.markets[k][f]]

\* A market with a forecast is a market, is not open, and is scored on the prices it
\* shows.
Scored(book) ==
    \A k \in DOMAIN book.forecasts :
        /\ k \in DOMAIN Markets
        /\ book.markets[k].status # "open"
        /\ book.forecasts[k] = Forecast(book, k)

Kept(book) == IsBook(book) /\ Scored(book)

\* No operation takes a forecast or a resolution back.
Grown(b, c) ==
    /\ \A k \in DOMAIN b.forecasts : k \in DOMAIN c.forecasts
    /\ \A k \in DOMAIN b.resolutions : k \in DOMAIN c.resolutions

LeagueInv ==
    /\ Kept(gBook)
    /\ \A k \in gVerified : k \in DOMAIN gBook.forecasts /\ k \in DOMAIN gBook.resolutions

\* What a market is scored on is its shares and who traded in it.
LEMMA SameForecast ==
    ASSUME NEW b, NEW c, NEW k,
           b.markets[k].shares = c.markets[k].shares,
           \A m \in Members : <<m, k>> \in b.traded <=> <<m, k>> \in c.traded
    PROVE  Forecast(b, k) = Forecast(c, k)
  <1>1. {m \in Members : <<m, k>> \in b.traded} = {m \in Members : <<m, k>> \in c.traded}
    OBVIOUS
  <1>. QED
    BY <1>1 DEF Forecast

LEMMA CloseKeeps ==
    ASSUME NEW b, Kept(b), NEW ks \in SUBSET DOMAIN Markets
    PROVE  /\ Kept(CloseLeagueMarkets(b, ks))
           /\ Grown(b, CloseLeagueMarkets(b, ks))
           /\ \A k \in ks : k \in DOMAIN CloseLeagueMarkets(b, ks).forecasts
  <1>. DEFINE c == CloseLeagueMarkets(b, ks)
              ms == [k \in DOMAIN Markets |->
                        IF k \in ks THEN [b.markets[k] EXCEPT !.status = Closed(@)]
                        ELSE b.markets[k]]
              fs == [k \in DOMAIN b.forecasts \cup ks |->
                        IF k \in ks THEN Forecast(b, k) ELSE b.forecasts[k]]
  <1>1. c = [b EXCEPT !.markets = ms, !.forecasts = fs]
    BY DEF CloseLeagueMarkets
  <1>2. b = [f \in BookFields |-> b[f]]
    BY DEF Kept, IsBook
  <1>. HIDE DEF c, ms, fs
  <1>3. /\ c = [f \in BookFields |-> c[f]]
        /\ c.markets = ms /\ c.forecasts = fs
        /\ c.traded = b.traded /\ c.resolutions = b.resolutions
    BY <1>1, <1>2 DEF BookFields
  <1>4. ASSUME NEW k \in DOMAIN Markets
        PROVE  /\ ms[k] = [f \in MarketFields |-> ms[k][f]]
               /\ ms[k].shares = b.markets[k].shares
               /\ (b.markets[k].status # "open" \/ k \in ks) => ms[k].status # "open"
    <2>1. b.markets[k] = [f \in MarketFields |-> b.markets[k][f]]
      BY DEF Kept, IsBook
    <2>2. ms[k] = IF k \in ks THEN [b.markets[k] EXCEPT !.status = Closed(b.markets[k].status)]
                  ELSE b.markets[k]
      BY DEF ms
    <2>3. CASE k \in ks
      <3>. DEFINE old == b.markets[k]
                  new == ms[k]
      <3>1. new = [old EXCEPT !.status = Closed(old.status)] /\ old = [f \in MarketFields |-> old[f]]
        BY <2>1, <2>2, <2>3
      <3>. HIDE DEF old, new
      <3>2. new = [f \in MarketFields |-> new[f]] /\ new.shares = old.shares
            /\ new.status = Closed(old.status)
        BY <3>1 DEF MarketFields
      <3>3. Closed(old.status) # "open"
        BY DEF Closed
      <3>. QED
        BY <3>2, <3>3 DEF old, new
    <2>. QED
      BY <2>1, <2>2, <2>3
  <1>5. IsBook(c)
    <2>1. ms = [k \in DOMAIN Markets |-> ms[k]]
      BY DEF ms
    <2>. QED
      BY <1>3, <1>4, <2>1 DEF IsBook
  <1>6. ASSUME NEW k \in DOMAIN fs
        PROVE  /\ k \in DOMAIN Markets
               /\ ms[k].status # "open"
               /\ fs[k] = Forecast(c, k)
    <2>1. k \in DOMAIN b.forecasts \/ k \in ks
      BY DEF fs
    <2>2. k \in DOMAIN Markets
      BY <2>1 DEF Kept, Scored
    <2>3. fs[k] = Forecast(b, k)
      <3>1. fs[k] = IF k \in ks THEN Forecast(b, k) ELSE b.forecasts[k]
        BY DEF fs
      <3>2. k \in DOMAIN b.forecasts => b.forecasts[k] = Forecast(b, k)
        BY DEF Kept, Scored
      <3>. QED
        BY <2>1, <3>1, <3>2
    <2>4. Forecast(b, k) = Forecast(c, k)
      <3>1. c.markets[k].shares = b.markets[k].shares
        BY <1>3, <1>4, <2>2
      <3>. QED
        BY <1>3, <3>1, SameForecast
    <2>. QED
      BY <1>4, <2>1, <2>2, <2>3, <2>4 DEF Kept, Scored
  <1>7. \A k \in DOMAIN b.forecasts \cup ks : k \in DOMAIN fs
    BY DEF fs
  <1>8. Scored(c)
    BY <1>3, <1>6 DEF Scored
  <1>. QED
    BY <1>3, <1>5, <1>7, <1>8 DEF Kept, Grown, c

\* A change of one market's status, and of anything a score does not look at.
LEMMA StatusKeeps ==
    ASSUME NEW b, Kept(b), NEW k \in DOMAIN Markets, NEW c,
           IsBook(c),
           c.traded = b.traded,
           c.forecasts = b.forecasts,
           \A j \in DOMAIN Markets :
              /\ c.markets[j].shares = b.markets[j].shares
              /\ b.markets[j].status # "open" => c.markets[j].status # "open"
    PROVE  Kept(c)
  <1>1. \A j \in DOMAIN Markets : Forecast(b, j) = Forecast(c, j)
    BY SameForecast
  <1>. QED
    BY <1>1 DEF Kept, Scored

LEMMA MarketChange ==
    ASSUME NEW b, IsBook(b), NEW k \in DOMAIN Markets, NEW ms, NEW v, v # "open",
           ms = [b.markets EXCEPT ![k].status = v]
    PROVE  /\ ms = [j \in DOMAIN Markets |-> ms[j]]
           /\ \A j \in DOMAIN Markets :
                 /\ ms[j] = [f \in MarketFields |-> ms[j][f]]
                 /\ ms[j].shares = b.markets[j].shares
                 /\ b.markets[j].status # "open" => ms[j].status # "open"
  <1>1. /\ b.markets = [j \in DOMAIN Markets |-> b.markets[j]]
        /\ \A j \in DOMAIN Markets : b.markets[j] = [f \in MarketFields |-> b.markets[j][f]]
    BY DEF IsBook
  <1>2. ms = [j \in DOMAIN Markets |-> ms[j]]
    BY <1>1
  <1>3. \A j \in DOMAIN Markets :
           ms[j] = IF j = k THEN [b.markets[k] EXCEPT !.status = v] ELSE b.markets[j]
    BY <1>1
  <1>. DEFINE old == b.markets[k]
              new == ms[k]
  <1>4. new = [old EXCEPT !.status = v] /\ old = [f \in MarketFields |-> old[f]]
    BY <1>1, <1>3
  <1>. HIDE DEF old, new
  <1>5. /\ new = [f \in MarketFields |-> new[f]] /\ new.shares = old.shares /\ new.status = v
    BY <1>4 DEF MarketFields
  <1>. QED
    BY <1>1, <1>2, <1>3, <1>5 DEF old, new

LEMMA SettleKeeps ==
    ASSUME NEW b, Kept(b), NEW k \in DOMAIN Markets, NEW o
    PROVE  /\ Kept(SettleMarket(b, k, o))
           /\ Grown(b, SettleMarket(b, k, o))
           /\ k \in DOMAIN SettleMarket(b, k, o).resolutions
  <1>. DEFINE c == SettleMarket(b, k, o)
              balances == [m \in Members |-> b.balances[m] + b.holdings[<<m, k>>][o]]
              old == b.markets[k]
              new == [old EXCEPT !.status = "resolved", !.resolved = o]
              ms == [b.markets EXCEPT ![k] = new]
              rs == [j \in DOMAIN b.resolutions \cup {k} |->
                        IF j = k THEN o ELSE b.resolutions[j]]
  <1>1. c = [b EXCEPT !.balances = balances, !.markets = ms, !.resolutions = rs]
    <2>1. b = [f \in BookFields |-> b[f]]
      BY DEF Kept, IsBook
    <2>. QED
      BY <2>1 DEF SettleMarket, BookFields
  <1>2. b = [f \in BookFields |-> b[f]]
    BY DEF Kept, IsBook
  <1>3. /\ b.markets = [j \in DOMAIN Markets |-> b.markets[j]]
        /\ \A j \in DOMAIN Markets : b.markets[j] = [f \in MarketFields |-> b.markets[j][f]]
    BY DEF Kept, IsBook
  <1>. HIDE DEF c, balances, rs
  <1>4. /\ ms = [j \in DOMAIN Markets |-> ms[j]]
        /\ \A j \in DOMAIN Markets :
              /\ ms[j] = [f \in MarketFields |-> ms[j][f]]
              /\ ms[j].shares = b.markets[j].shares
              /\ b.markets[j].status # "open" => ms[j].status # "open"
    <2>1. old = [f \in MarketFields |-> old[f]]
      BY <1>3
    <2>. HIDE DEF old
    <2>2. new = [f \in MarketFields |-> new[f]] /\ new.shares = old.shares /\ new.status = "resolved"
      BY <2>1 DEF MarketFields
    <2>. HIDE DEF new
    <2>3. ms = [j \in DOMAIN Markets |-> ms[j]]
      BY <1>3
    <2>4. \A j \in DOMAIN Markets : ms[j] = IF j = k THEN new ELSE b.markets[j]
      BY <1>3
    <2>5. old = b.markets[k]
      BY DEF old
    <2>. QED
      BY <1>3, <2>2, <2>3, <2>4, <2>5
  <1>. HIDE DEF ms, new, old
  <1>5. /\ c = [f \in BookFields |-> c[f]]
        /\ c.markets = ms /\ c.resolutions = rs
        /\ c.traded = b.traded /\ c.forecasts = b.forecasts
    BY <1>1, <1>2 DEF BookFields
  <1>6. IsBook(c)
    BY <1>4, <1>5 DEF IsBook
  <1>7. k \in DOMAIN rs /\ \A j \in DOMAIN b.resolutions : j \in DOMAIN rs
    BY DEF rs
  <1>8. \A j \in DOMAIN Markets :
           /\ c.markets[j].shares = b.markets[j].shares
           /\ b.markets[j].status # "open" => c.markets[j].status # "open"
    BY <1>4, <1>5
  <1>9. Kept(c)
    BY <1>5, <1>6, <1>8, StatusKeeps
  <1>. QED
    BY <1>5, <1>7, <1>9 DEF Grown, c

LEMMA VoidKeeps ==
    ASSUME NEW b, Kept(b), NEW k \in DOMAIN Markets
    PROVE  Kept(VoidAndRefund(b, k)) /\ Grown(b, VoidAndRefund(b, k))
  <1>. DEFINE c == VoidAndRefund(b, k)
              balances == [m \in Members |-> b.balances[m] + b.spent[<<m, k>>]]
              ms == [b.markets EXCEPT ![k].status = "void"]
  <1>1. b = [f \in BookFields |-> b[f]]
    BY DEF Kept, IsBook
  <1>2. c = [b EXCEPT !.balances = balances, !.markets = ms]
    BY <1>1 DEF VoidAndRefund, BookFields
  <1>3. /\ ms = [j \in DOMAIN Markets |-> ms[j]]
        /\ \A j \in DOMAIN Markets :
              /\ ms[j] = [f \in MarketFields |-> ms[j][f]]
              /\ ms[j].shares = b.markets[j].shares
              /\ b.markets[j].status # "open" => ms[j].status # "open"
    BY MarketChange DEF Kept
  <1>. HIDE DEF c, balances, ms
  <1>4. /\ c = [f \in BookFields |-> c[f]]
        /\ c.markets = ms /\ c.resolutions = b.resolutions
        /\ c.traded = b.traded /\ c.forecasts = b.forecasts
    BY <1>1, <1>2 DEF BookFields
  <1>5. IsBook(c)
    BY <1>3, <1>4 DEF IsBook
  <1>6. Kept(c)
    BY <1>3, <1>4, <1>5, StatusKeeps
  <1>. QED
    BY <1>4, <1>6 DEF Grown, c

LEMMA WithdrawKeeps ==
    ASSUME NEW b, Kept(b), NEW m, NEW k
    PROVE  Kept(VoidFlaggedPosition(b, m, k)) /\ Grown(b, VoidFlaggedPosition(b, m, k))
  <1>. DEFINE c == VoidFlaggedPosition(b, m, k)
              balances == [b.balances EXCEPT ![m] = @ + b.spent[<<m, k>>]]
              holdings == [b.holdings EXCEPT ![<<m, k>>] = NoShares]
              voided == b.voided \cup {<<m, k>>}
  <1>1. b = [f \in BookFields |-> b[f]]
    BY DEF Kept, IsBook
  <1>2. c = [b EXCEPT !.balances = balances, !.holdings = holdings, !.voided = voided]
    BY <1>1 DEF VoidFlaggedPosition, BookFields
  <1>. HIDE DEF c, balances, holdings, voided
  <1>3. /\ c = [f \in BookFields |-> c[f]]
        /\ c.markets = b.markets /\ c.resolutions = b.resolutions
        /\ c.traded = b.traded /\ c.forecasts = b.forecasts
    BY <1>1, <1>2 DEF BookFields
  <1>4. \A j : Forecast(c, j) = Forecast(b, j)
    BY <1>3 DEF Forecast
  <1>. QED
    BY <1>3, <1>4 DEF Kept, IsBook, Scored, Grown, c

\* A trade is made in an open market only, which nobody is scored on yet.
LEMMA TradeKeeps ==
    ASSUME NEW b, Kept(b), NEW m, NEW k \in DOMAIN Markets, NEW o, NEW n,
           TradeAllowed(b, m, k, o, n)
    PROVE  Kept(PlaceTrade(b, m, k, o, n)) /\ Grown(b, PlaceTrade(b, m, k, o, n))
  <1>. DEFINE c == PlaceTrade(b, m, k, o, n)
              sold == After(b.markets[k], o, n)
              ms == [b.markets EXCEPT ![k].shares = sold]
  <1>1. /\ b = [f \in BookFields |-> b[f]]
        /\ b.markets = [j \in DOMAIN Markets |-> b.markets[j]]
        /\ \A j \in DOMAIN Markets : b.markets[j] = [f \in MarketFields |-> b.markets[j][f]]
    BY DEF Kept, IsBook
  <1>2. /\ c = [f \in BookFields |-> c[f]]
        /\ c.markets = ms /\ c.resolutions = b.resolutions
        /\ c.traded = b.traded \cup {<<m, k>>} /\ c.forecasts = b.forecasts
    <2>. DEFINE cost == Cost[After(b.markets[k], o, n)] - Cost[b.markets[k].shares]
                balances == [b.balances EXCEPT ![m] = @ - cost]
                holdings == [b.holdings EXCEPT ![<<m, k>>][o] = @ + n]
                spent == [b.spent EXCEPT ![<<m, k>>] = @ + cost]
                traded == b.traded \cup {<<m, k>>}
                flagged == IF OwnAgent(m, k) THEN b.flagged \cup {<<m, k>>} ELSE b.flagged
    <2>1. c = [b EXCEPT !.markets = ms, !.balances = balances, !.holdings = holdings,
                        !.spent = spent, !.traded = traded, !.flagged = flagged]
      BY <1>1 DEF PlaceTrade, BookFields
    <2>. HIDE DEF c, ms, cost, balances, holdings, spent, traded, flagged
    <2>2. /\ c = [f \in BookFields |-> c[f]]
          /\ c.markets = ms /\ c.resolutions = b.resolutions
          /\ c.traded = traded /\ c.forecasts = b.forecasts
      BY <1>1, <2>1 DEF BookFields
    <2>. QED
      BY <2>2 DEF traded
  <1>. HIDE DEF c, sold
  <1>3. /\ ms = [j \in DOMAIN Markets |-> ms[j]]
        /\ \A j \in DOMAIN Markets :
              /\ ms[j] = [f \in MarketFields |-> ms[j][f]]
              /\ ms[j].status = b.markets[j].status
              /\ j # k => ms[j].shares = b.markets[j].shares
    <2>1. ms = [j \in DOMAIN Markets |-> ms[j]]
      BY <1>1
    <2>2. \A j \in DOMAIN Markets :
             ms[j] = IF j = k THEN [b.markets[k] EXCEPT !.shares = sold] ELSE b.markets[j]
      BY <1>1
    <2>. DEFINE old == b.markets[k]
                new == ms[k]
    <2>3. new = [old EXCEPT !.shares = sold] /\ old = [f \in MarketFields |-> old[f]]
      BY <1>1, <2>2
    <2>. HIDE DEF old, new
    <2>4. new = [f \in MarketFields |-> new[f]] /\ new.status = old.status
      BY <2>3 DEF MarketFields
    <2>. QED
      BY <1>1, <2>1, <2>2, <2>4 DEF old, new
  <1>. HIDE DEF ms
  <1>4. IsBook(c)
    BY <1>2, <1>3 DEF IsBook
  <1>5. b.markets[k].status = "open"
    BY DEF TradeAllowed, Tradable
  <1>6. \A j \in DOMAIN b.forecasts : j \in DOMAIN Markets /\ j # k
    BY <1>5 DEF Kept, Scored
  <1>7. \A j \in DOMAIN b.forecasts : Forecast(b, j) = Forecast(c, j)
    <2>. TAKE j \in DOMAIN b.forecasts
    <2>1. c.markets[j].shares = b.markets[j].shares
      BY <1>2, <1>3, <1>6
    <2>2. \A l \in Members : <<l, j>> \in b.traded <=> <<l, j>> \in c.traded
      BY <1>2, <1>6
    <2>. QED
      BY <2>1, <2>2, SameForecast
  <1>8. Scored(c)
    BY <1>2, <1>3, <1>6, <1>7 DEF Kept, Scored
  <1>. QED
    BY <1>2, <1>4, <1>8 DEF Kept, Grown, c

LEMMA StepLeague ==
    ASSUME LeagueInv, [NextLeague]_leagueVars
    PROVE  LeagueInv'
  <1>. DEFINE Good(book) == Kept(book) /\ Grown(gBook, book)
  <1>0. Kept(gBook)
    BY DEF LeagueInv
  \* What an operation that settles nothing authoritatively has to keep.
  <1>a. ASSUME Good(gBook'), UNCHANGED gVerified
        PROVE  LeagueInv'
    BY <1>a DEF LeagueInv, Grown
  <1>b. ASSUME NEW b, NEW c, Good(b), Kept(c), Grown(b, c)
        PROVE  Good(c)
    BY <1>b DEF Grown
  <1>1. ASSUME NEW ts
        PROVE  Good(CloseDueMarkets(gBook, ts))
    BY <1>0, CloseKeeps DEF CloseDueMarkets
  <1>2. ASSUME NEW k \in DOMAIN Markets, NEW ts, NEW o, Settle(k, ts, o)
        PROVE  LeagueInv'
    <2>. DEFINE book == CloseDueMarkets(gBook, ts)
                closed == CloseLeagueMarkets(book, {k})
                settled == SettleMarket(closed, k, o)
    <2>1. Good(book)
      BY <1>1
    <2>2. gBook' = settled /\ gVerified' = gVerified \cup {k}
      BY <1>2 DEF Settle, SettledBy
    <2>. HIDE DEF book
    <2>3. Good(closed) /\ k \in DOMAIN closed.forecasts
      BY <1>b, <2>1, CloseKeeps
    <2>. HIDE DEF closed
    <2>4. Kept(settled) /\ Grown(closed, settled) /\ k \in DOMAIN settled.resolutions
      BY <2>3, SettleKeeps
    <2>. HIDE DEF settled
    <2>5. Good(settled) /\ k \in DOMAIN settled.forecasts
      BY <1>b, <2>3, <2>4 DEF Grown
    <2>. QED
      BY <2>2, <2>4, <2>5 DEF LeagueInv, Grown
  <1>3. ASSUME NEW m \in Members, NEW k \in DOMAIN Markets, NEW o \in Outcomes,
               NEW n \in {-1, 1}, Trade(m, k, o, n)
        PROVE  LeagueInv'
    BY <1>0, <1>3, <1>a, TradeKeeps DEF Trade
  <1>4. ASSUME NEW k \in DOMAIN Markets, NEW ts \in 0 .. MaxTs, ResultArrives(k, ts)
        PROVE  LeagueInv'
    <2>1. CASE /\ gBook' = VoidAndRefund(CloseDueMarkets(gBook, ts), k)
               /\ UNCHANGED gVerified
      <3>. DEFINE book == CloseDueMarkets(gBook, ts)
      <3>1. Good(book)
        BY <1>1
      <3>. HIDE DEF book
      <3>2. Good(VoidAndRefund(book, k))
        BY <1>b, <3>1, VoidKeeps
      <3>. QED
        BY <1>a, <2>1, <3>2 DEF book
    <2>. QED
      BY <1>2, <1>4, <2>1 DEF ResultArrives
  <1>5. ASSUME NEW ts \in 0 .. MaxTs, TimePasses(ts)
        PROVE  LeagueInv'
    BY <1>1, <1>5, <1>a DEF TimePasses
  <1>6. ASSUME NEW k \in DOMAIN Markets, Close(k)
        PROVE  LeagueInv'
    BY <1>0, <1>6, <1>a, CloseKeeps DEF Close
  <1>7. ASSUME NEW k \in DOMAIN Markets, NEW o \in Outcomes, Decide(k, o)
        PROVE  LeagueInv'
    BY <1>0, <1>7, <1>a, SettleKeeps DEF Decide
  <1>8. ASSUME NEW m \in Members, NEW k \in DOMAIN Markets, Intervene(m, k)
        PROVE  LeagueInv'
    BY <1>0, <1>8, <1>a, WithdrawKeeps DEF Intervene
  <1>9. ASSUME NEW k \in DOMAIN Markets, CallOff(k)
        PROVE  LeagueInv'
    BY <1>0, <1>9, <1>a, VoidKeeps DEF CallOff
  <1>10. CASE UNCHANGED leagueVars
    BY <1>10 DEF LeagueInv, leagueVars
  <1>. QED
    BY <1>3, <1>4, <1>5, <1>6, <1>7, <1>8, <1>9, <1>10 DEF NextLeague

\* A verified market scores exactly its traders.
LEMMA LeagueScores ==
    ASSUME LeagueInv
    PROVE  ForecastsAreClosingPrices
  <1>1. \A k \in DOMAIN gBook.forecasts : gBook.forecasts[k] = Forecast(gBook, k)
    BY DEF LeagueInv, Kept, Scored
  <1>2. ASSUME NEW k \in gVerified, NEW m \in Members
        PROVE  k \in Samples(gBook, m) <=> <<m, k>> \in gBook.traded
    <2>1. k \in DOMAIN gBook.forecasts /\ k \in DOMAIN gBook.resolutions
      BY DEF LeagueInv
    <2>2. m \in DOMAIN gBook.forecasts[k] <=> <<m, k>> \in gBook.traded
      BY <1>1, <2>1 DEF Forecast
    <2>. QED
      BY <2>1, <2>2 DEF Samples
  <1>. QED
    BY <1>1, <1>2 DEF ForecastsAreClosingPrices

LEMMA InitialBook ==
    ASSUME InitLeague
    PROVE  LeagueInv
  <1>1. gBook = CreateLeague /\ gVerified = {}
    BY DEF InitLeague
  <1>. DEFINE book == CreateLeague
  <1>2. /\ book = [f \in BookFields |-> book[f]]
        /\ book.markets = [k \in DOMAIN Markets |-> CreateMarket]
        /\ book.forecasts = [k \in {} |-> {}]
        /\ book.resolutions = [k \in {} |-> "none"]
    BY DEF CreateLeague, BookFields
  <1>3. CreateMarket = [f \in MarketFields |-> CreateMarket[f]]
    BY DEF CreateMarket, MarketFields
  <1>. HIDE DEF book
  <1>4. IsBook(book)
    BY <1>2, <1>3 DEF IsBook
  <1>5. Scored(book)
    BY <1>2 DEF Scored
  <1>. QED
    BY <1>1, <1>4, <1>5 DEF LeagueInv, Kept, book
-----------------------------------------------------------------------------
(***************************************************************************)
(* The speculative merge worker.                                           *)
(***************************************************************************)
Decided == {"removing", "pruning", "deleting", "answered"}
Unmerged == {"unsent", "adding", "patching", "checking"}

\* What a result leaves out has run to its end or was broken, what it names has not run.
Accounts(r, answer, done, broken) ==
    answer # Thrown =>
        /\ Unchecked(r) \ done \subseteq answer.notRun \cup broken
        /\ answer.notRun \cap done = {}

\* A request at a stage, with what it has run and been answered.
Sound(r, stage, done, broken, answer) ==
    /\ stage \in Unmerged => done = {}
    /\ stage = "testing" =>
          /\ {"typecheck"} \cup Contracts(r) \subseteq done \cup broken
          /\ "tests" \notin done
    /\ stage \in Decided => Accounts(r, answer, done, broken)

\* Where no directory is to be found any more, or yet.
Swept(stage, answer) == stage = "unsent" \/ (stage = "answered" /\ answer # Thrown)

MergeInv ==
    /\ mStage = [r \in DOMAIN Requests |-> mStage[r]]
    /\ mDone = [r \in DOMAIN Requests |-> mDone[r]]
    /\ mBroken = [r \in DOMAIN Requests |-> mBroken[r]]
    /\ mAnswer = [r \in DOMAIN Requests |-> mAnswer[r]]
    /\ \A r \in DOMAIN Requests :
          /\ Sound(r, mStage[r], mDone[r], mBroken[r], mAnswer[r])
          /\ Swept(mStage[r], mAnswer[r]) => r \notin mDir

\* A step is one request's: the others have what they had.
OnlyOf(r, stage, done, broken, answer) ==
    /\ mStage' = [mStage EXCEPT ![r] = stage]
    /\ mDone' = [mDone EXCEPT ![r] = done]
    /\ mBroken' = [mBroken EXCEPT ![r] = broken]
    /\ mAnswer' = [mAnswer EXCEPT ![r] = answer]

LEMMA OneRequest ==
    ASSUME MergeInv, NEW r \in DOMAIN Requests, NEW stage, NEW done, NEW broken, NEW answer,
           OnlyOf(r, stage, done, broken, answer),
           mDir' \subseteq mDir \cup {r},
           Swept(stage, answer) => r \notin mDir',
           Sound(r, stage, done, broken, answer)
    PROVE  MergeInv'
  <1>1. /\ mStage' = [q \in DOMAIN Requests |-> mStage'[q]]
        /\ mDone' = [q \in DOMAIN Requests |-> mDone'[q]]
        /\ mBroken' = [q \in DOMAIN Requests |-> mBroken'[q]]
        /\ mAnswer' = [q \in DOMAIN Requests |-> mAnswer'[q]]
    BY DEF MergeInv, OnlyOf
  <1>2. ASSUME NEW q \in DOMAIN Requests
        PROVE  /\ mStage'[q] = IF q = r THEN stage ELSE mStage[q]
               /\ mDone'[q] = IF q = r THEN done ELSE mDone[q]
               /\ mBroken'[q] = IF q = r THEN broken ELSE mBroken[q]
               /\ mAnswer'[q] = IF q = r THEN answer ELSE mAnswer[q]
    BY DEF MergeInv, OnlyOf
  <1>3. ASSUME NEW q \in DOMAIN Requests
        PROVE  /\ Sound(q, mStage'[q], mDone'[q], mBroken'[q], mAnswer'[q])
               /\ Swept(mStage'[q], mAnswer'[q]) => q \notin mDir'
    <2>1. CASE q = r
      BY <1>2, <2>1
    <2>2. CASE q # r
      <3>1. /\ mStage'[q] = mStage[q] /\ mDone'[q] = mDone[q]
            /\ mBroken'[q] = mBroken[q] /\ mAnswer'[q] = mAnswer[q]
        BY <1>2, <2>2
      <3>2. Sound(q, mStage[q], mDone[q], mBroken[q], mAnswer[q])
        BY DEF MergeInv
      <3>3. Swept(mStage[q], mAnswer[q]) => q \notin mDir'
        BY <2>2 DEF MergeInv
      <3>. QED
        BY <3>1, <3>2, <3>3
    <2>. QED
      BY <2>1, <2>2
  <1>. QED
    BY <1>1, <1>3
    DEF MergeInv, Sound, Swept, Accounts, Contracts, Unchecked, Thrown

\* What is not decided here stays.
LEMMA Unmoved ==
    ASSUME MergeInv, NEW r \in DOMAIN Requests
    PROVE  /\ mStage = [mStage EXCEPT ![r] = mStage[r]]
           /\ mDone = [mDone EXCEPT ![r] = mDone[r]]
           /\ mBroken = [mBroken EXCEPT ![r] = mBroken[r]]
           /\ mAnswer = [mAnswer EXCEPT ![r] = mAnswer[r]]
           /\ Sound(r, mStage[r], mDone[r], mBroken[r], mAnswer[r])
  BY DEF MergeInv

\* An answer decided on is sound if it accounts for what has not run.
LEMMA DecidesKeeps ==
    ASSUME MergeInv, NEW r \in DOMAIN Requests, NEW answer, NEW done, NEW broken,
           Decides(r, answer),
           mDone' = [mDone EXCEPT ![r] = done],
           mBroken' = [mBroken EXCEPT ![r] = broken],
           UNCHANGED mDir,
           Accounts(r, answer, done, broken)
    PROVE  MergeInv'
  <1>1. PICK stage \in {"removing", "deleting"} : mStage' = [mStage EXCEPT ![r] = stage]
    BY DEF Decides, Goes
  <1>2. OnlyOf(r, stage, done, broken, answer)
    BY <1>1 DEF Decides, OnlyOf
  <1>3. Sound(r, stage, done, broken, answer)
    BY DEF Sound, Unmerged
  <1>4. ~Swept(stage, answer)
    BY DEF Swept
  <1>. QED
    BY <1>2, <1>3, <1>4, OneRequest

\* A throw accounts for everything, and so does, where nothing has run, a failure and
\* a result that names every stage there is.
LEMMA AccountedFor ==
    ASSUME NEW r, NEW broken
    PROVE  /\ Accounts(r, Failure, {}, broken)
           /\ \A done : Accounts(r, Thrown, done, broken)
           /\ \A errors :
                 Accounts(r, Result({"patch apply", "typecheck", "tests", "contracts"}, errors),
                          {}, broken)
           /\ \A errors : Accounts(r, Result(Unchecked(r), errors), {}, broken)
  BY DEF Accounts, Failure, Result, Contracts, Unchecked

\* A step that only moves a request on.
LEMMA GoesKeeps ==
    ASSUME MergeInv, NEW r \in DOMAIN Requests, NEW stage,
           Goes(r, stage),
           UNCHANGED <<mDone, mBroken, mAnswer>>,
           mDir' \subseteq mDir \cup {r},
           Swept(stage, mAnswer[r]) => r \notin mDir',
           Sound(r, stage, mDone[r], mBroken[r], mAnswer[r])
    PROVE  MergeInv'
  <1>1. OnlyOf(r, stage, mDone[r], mBroken[r], mAnswer[r])
    BY Unmoved DEF Goes, OnlyOf
  <1>. QED
    BY <1>1, OneRequest

\* Before the type check nothing has run, and a request may go on, or be decided on
\* with a failure, a throw or a result that names everything.
LEMMA BeforeMerging ==
    ASSUME MergeInv, NEW r \in DOMAIN Requests,
           \/ Start(r)
           \/ \E end \in Ends : AddWorktree(r, end) \/ ApplyPatch(r, end)
           \/ WriteChecks(r)
    PROVE  MergeInv'
  <1>1. UNCHANGED <<mDone, mBroken>> /\ mStage[r] \in {"unsent", "adding", "patching"}
    BY DEF Start, AddWorktree, ApplyPatch, WriteChecks, At
  <1>2. /\ mDone = [mDone EXCEPT ![r] = {}]
        /\ mBroken = [mBroken EXCEPT ![r] = mBroken[r]]
        /\ mDone[r] = {}
    BY <1>1, Unmoved DEF Sound, Unmerged
  <1>3. ASSUME NEW stage \in {"adding", "patching", "checking"}
        PROVE  /\ Sound(r, stage, mDone[r], mBroken[r], mAnswer[r])
               /\ ~Swept(stage, mAnswer[r])
    BY <1>2 DEF Sound, Swept, Decided
  <1>4. ASSUME NEW answer, Decides(r, answer), UNCHANGED mDir,
               Accounts(r, answer, {}, mBroken[r])
        PROVE  MergeInv'
    BY <1>1, <1>2, <1>4, DecidesKeeps
  <1>5. CASE Start(r)
    <2>1. CASE Goes(r, "adding") /\ UNCHANGED mAnswer /\ mDir' = mDir \cup {r}
      BY <1>1, <1>3, <2>1, GoesKeeps
    <2>2. CASE /\ mAnswer' = [mAnswer EXCEPT ![r] = Thrown]
               /\ Goes(r, "answered")
               /\ UNCHANGED mDir
      <3>1. Sound(r, "answered", {}, mBroken[r], Thrown)
        BY AccountedFor DEF Sound
      <3>2. OnlyOf(r, "answered", {}, mBroken[r], Thrown)
        BY <1>1, <1>2, <2>2 DEF Goes, OnlyOf
      <3>3. ~Swept("answered", Thrown)
        BY DEF Swept
      <3>. QED
        BY <2>2, <3>1, <3>2, <3>3, OneRequest
    <2>. QED
      BY <1>5, <2>1, <2>2 DEF Start
  <1>6. ASSUME NEW end \in Ends, AddWorktree(r, end)
        PROVE  MergeInv'
    <2>1. CASE end = "ok"
      BY <1>1, <1>3, <1>6, <2>1, GoesKeeps DEF AddWorktree
    <2>2. CASE end # "ok"
      BY <1>4, <1>6, <2>2, AccountedFor DEF AddWorktree
    <2>. QED
      BY <2>1, <2>2
  <1>7. ASSUME NEW end \in Ends, ApplyPatch(r, end)
        PROVE  MergeInv'
    <2>0. UNCHANGED mDir
      BY <1>7 DEF ApplyPatch
    <2>1. CASE end = "ok"
      <3>1. UNCHANGED <<mStage, mAnswer>>
        BY <1>7, <2>1 DEF ApplyPatch
      <3>. QED
        BY <1>1, <2>0, <3>1
        DEF MergeInv, Sound, Swept, Accounts, Contracts, Unchecked, Thrown
    <2>2. CASE end \in {"failed", "broken"}
      <3>1. Decides(r, Failure)
        BY <1>7, <2>2 DEF ApplyPatch
      <3>. QED
        BY <1>4, <2>0, <3>1, AccountedFor
    <2>3. CASE end = "timeout"
      <3>1. Decides(r, Result({"patch apply", "typecheck", "tests", "contracts"}, FALSE))
        BY <1>7, <2>3 DEF ApplyPatch
      <3>. QED
        BY <1>4, <2>0, <3>1, AccountedFor
    <2>. QED
      BY <2>1, <2>2, <2>3 DEF Ends
  <1>8. CASE WriteChecks(r)
    <2>1. CASE Goes(r, "checking") /\ UNCHANGED mAnswer
      BY <1>1, <1>3, <1>8, <2>1, GoesKeeps DEF WriteChecks
    <2>2. CASE Decides(r, Thrown)
      BY <1>4, <1>8, <2>2, AccountedFor DEF WriteChecks
    <2>. QED
      BY <1>8, <2>1, <2>2 DEF WriteChecks
  <1>. QED
    BY <1>5, <1>6, <1>7, <1>8

LEMMA WhileMerging ==
    ASSUME MergeInv, NEW r \in DOMAIN Requests, NEW end \in Ends, NEW parsed \in Parses,
           Typecheck(r, end, parsed) \/ RunTests(r, end, parsed)
    PROVE  MergeInv'
  <1>1. CASE Typecheck(r, end, parsed)
    <2>. DEFINE done == IF ToTheEnd(end) THEN {"typecheck"} \cup Contracts(r) ELSE {}
                broken == IF end = "broken" THEN {"typecheck"} \cup Contracts(r)
                          ELSE mBroken[r]
                answer == [kind |-> "checked",
                           errors |-> parsed \/ (end # "ok" /\ Requests[r].contracts)]
    <2>1. mDone[r] = {}
      BY <1>1 DEF Typecheck, At, MergeInv, Sound, Unmerged
    <2>2. /\ mDone' = [mDone EXCEPT ![r] = done]
          /\ mBroken' = [mBroken EXCEPT ![r] = broken]
          /\ UNCHANGED mDir
      BY <1>1, <2>1 DEF Typecheck
    <2>3. CASE end = "timeout"
      <3>1. Decides(r, Result(Unchecked(r), parsed))
        BY <1>1, <2>3 DEF Typecheck
      <3>2. done = {}
        BY <2>3 DEF ToTheEnd
      <3>. HIDE DEF done, broken
      <3>. QED
        BY <2>2, <3>1, <3>2, AccountedFor, DecidesKeeps
    <2>4. CASE end # "timeout"
      <3>1. OnlyOf(r, "testing", done, broken, answer)
        BY <1>1, <2>2, <2>4 DEF Typecheck, Goes, OnlyOf
      <3>2. Sound(r, "testing", done, broken, answer)
        <4>1. {"typecheck"} \cup Contracts(r) \subseteq done \cup broken
          BY <2>4 DEF ToTheEnd, Ends
        <4>2. "tests" \notin done
          BY DEF Contracts
        <4>. HIDE DEF done, broken, answer
        <4>. QED
          BY <4>1, <4>2 DEF Sound, Decided, Unmerged
      <3>3. ~Swept("testing", answer)
        BY DEF Swept
      <3>. HIDE DEF done, broken, answer
      <3>. QED
        BY <2>2, <3>1, <3>2, <3>3, OneRequest
    <2>. QED
      BY <2>3, <2>4
  <1>2. CASE RunTests(r, end, parsed)
    <2>. DEFINE left == IF end = "timeout" THEN {"tests"} ELSE {}
                errors == mAnswer[r].errors \/ parsed
                done == IF ToTheEnd(end) THEN mDone[r] \cup {"tests"} ELSE mDone[r]
                broken == IF end = "broken" THEN mBroken[r] \cup {"tests"} ELSE mBroken[r]
    <2>1. Decides(r, Result(left, errors)) /\ UNCHANGED mDir
      BY <1>2 DEF RunTests
    <2>2. /\ mDone' = [mDone EXCEPT ![r] = done]
          /\ mBroken' = [mBroken EXCEPT ![r] = broken]
      BY <1>2 DEF RunTests
    <2>3. /\ {"typecheck"} \cup Contracts(r) \subseteq mDone[r] \cup mBroken[r]
          /\ "tests" \notin mDone[r]
      BY <1>2 DEF RunTests, At, MergeInv, Sound
    <2>4. Accounts(r, Result(left, errors), done, broken)
      <3>1. "tests" \in done \cup broken \cup left
        BY DEF ToTheEnd, Ends
      <3>2. mDone[r] \subseteq done /\ mBroken[r] \subseteq broken
        OBVIOUS
      <3>3. Unchecked(r) \ done \subseteq left \cup broken
        BY <2>3, <3>1, <3>2 DEF Unchecked
      <3>4. left \cap done = {}
        BY <2>3 DEF ToTheEnd
      <3>5. Result(left, errors).notRun = left
        BY DEF Result
      <3>. HIDE DEF left, errors, done, broken
      <3>. QED
        BY <3>3, <3>4, <3>5 DEF Accounts
    <2>. HIDE DEF left, errors, done, broken
    <2>. QED
      BY <2>1, <2>2, <2>4, DecidesKeeps
  <1>. QED
    BY <1>1, <1>2

LEMMA AfterMerging ==
    ASSUME MergeInv, NEW r \in DOMAIN Requests,
           \/ \E end \in Ends : RemoveWorktree(r, end) \/ Prune(r, end)
           \/ Delete(r)
    PROVE  MergeInv'
  <1>1. mStage[r] \in {"removing", "pruning", "deleting"} /\ UNCHANGED <<mDone, mBroken>>
    BY DEF RemoveWorktree, Prune, Delete, At
  <1>2. CASE /\ UNCHANGED mAnswer
             /\ \E stage \in {"pruning", "deleting", "answered"} :
                   Goes(r, stage) /\ (stage = "answered" => r \notin mDir')
             /\ mDir' \subseteq mDir
    <2>1. PICK stage \in {"pruning", "deleting", "answered"} :
             Goes(r, stage) /\ (stage = "answered" => r \notin mDir')
      BY <1>2
    <2>2. Sound(r, stage, mDone[r], mBroken[r], mAnswer[r])
      BY <1>1, <2>1 DEF MergeInv, Sound, Decided, Unmerged
    <2>. QED
      BY <1>1, <1>2, <2>1, <2>2, GoesKeeps DEF Swept
  <1>3. CASE /\ mAnswer' = [mAnswer EXCEPT ![r] = Thrown]
             /\ Goes(r, "answered")
             /\ UNCHANGED mDir
    <2>1. Sound(r, "answered", mDone[r], mBroken[r], Thrown)
      BY AccountedFor DEF Sound, Unmerged
    <2>2. OnlyOf(r, "answered", mDone[r], mBroken[r], Thrown)
      BY <1>1, <1>3, Unmoved DEF Goes, OnlyOf
    <2>3. ~Swept("answered", Thrown)
      BY DEF Swept
    <2>. QED
      BY <1>3, <2>1, <2>2, <2>3, OneRequest
  <1>4. CASE \E end \in Ends : RemoveWorktree(r, end) \/ Prune(r, end)
    <2>1. \E stage \in {"pruning", "deleting", "answered"} :
             Goes(r, stage) /\ (stage = "answered" => r \notin mDir')
      BY <1>4 DEF RemoveWorktree, Prune
    <2>. QED
      BY <1>2, <1>4, <2>1 DEF RemoveWorktree, Prune
  <1>5. CASE Delete(r)
    <2>1. CASE mDir' = Deleted(r) /\ UNCHANGED mAnswer
      BY <1>2, <1>5, <2>1 DEF Delete, Deleted
    <2>. QED
      BY <1>3, <1>5, <2>1 DEF Delete
  <1>. QED
    BY <1>4, <1>5

LEMMA StepMerge ==
    ASSUME MergeInv, [NextMerge]_mergeVars
    PROVE  MergeInv'
  <1>1. CASE UNCHANGED mergeVars
    BY <1>1 DEF mergeVars, MergeInv, Sound, Swept, Accounts, Contracts, Unchecked, Thrown
  <1>2. CASE NextMerge
    BY <1>2, BeforeMerging, WhileMerging, AfterMerging DEF NextMerge
  <1>. QED
    BY <1>1, <1>2

LEMMA InitialRequests ==
    ASSUME InitMerge
    PROVE  MergeInv
  BY DEF InitMerge, MergeInv, Sound, Decided, Unmerged, Swept
-----------------------------------------------------------------------------
(***************************************************************************)
(* The hooks.  Of a change the room has not been told of, each of the two  *)
(* who could tell either still will or is out of it.                       *)
(***************************************************************************)
HooksShape ==
    /\ aHost \in AgentHosts \cup {"none"}
    /\ aCalls = [c \in ToolCalls |-> aCalls[c]]
    /\ aWord = [c \in ToolCalls |-> aWord[c]]
    /\ \A r \in aServing :
          /\ r = [event |-> r.event, call |-> r.call, stage |-> r.stage]
          /\ r.event = "after" => r.call \in ToolCalls
    /\ aHost = "none" =>
          /\ ~aUp
          /\ aServing = {}
          /\ \A c \in ToolCalls : aCalls[c] = "idle"

\* The changes of a call that the hook after it can tell of.
Tells(c) == Owed(c) \cap Shown(c)

WatcherTells == \A f \in aUntold : f \in aDirty \/ f \in aUnwatched

HookToCome(f) ==
    \/ \E c \in ToolCalls : f \in Tells(c) /\ aCalls[c] \in {"committing", "after"}
    \/ \E r \in aServing : r.event = "after" /\ f \in Tells(r.call)

HookTells == \A f \in aUntold : f \in aUnreported \/ HookToCome(f)

WriteOf(f) == [type |-> "FILE_WRITE", path |-> f]

\* shell.ts finds what a command segment plainly writes.
LEMMA SegmentShows ==
    ASSUME NEW s, NEW f, PlainlyWrites(s, f)
    PROVE  f \in SegmentWrites(s)
  <1>0. f # "glob" /\ f # "script"
    BY DEF PlainlyWrites
  <1>1. CASE f \in s.into
    BY <1>0, <1>1 DEF SegmentWrites
  <1>2. ASSUME f \in ToSet(s.args)
        PROVE  f \in Paths(s.args)
    BY <1>0, <1>2 DEF ToSet, Paths, Literals
  <1>3. CASE s.name \in {"tee", "touch", "patch", "rm"} /\ f \in ToSet(s.args)
    BY <1>2, <1>3 DEF SegmentWrites
  <1>4. CASE s.name = "sed" /\ s.inPlace /\ f \in ToSet(s.args)
    BY <1>0, <1>2, <1>4 DEF SegmentWrites
  <1>5. CASE /\ s.name \in {"mv", "cp"}
             /\ \E i, j \in DOMAIN s.args :
                   /\ \A k \in DOMAIN s.args : k <= i
                   /\ f = s.args[i] /\ j # i /\ s.args[j] # "glob"
    <2>1. PICK i \in DOMAIN s.args, j \in DOMAIN s.args :
             /\ \A k \in DOMAIN s.args : k <= i
             /\ f = s.args[i] /\ j # i /\ s.args[j] # "glob"
      BY <1>5
    <2>2. /\ i \in Literals(s.args)
          /\ \A k \in Literals(s.args) : k <= i
          /\ j \in Literals(s.args)
      BY <1>0, <2>1 DEF Literals
    <2>3. f \in Destination(s.args)
      BY <2>1, <2>2 DEF Destination
    <2>. QED
      BY <1>5, <2>3 DEF SegmentWrites
  <1>. QED
    BY <1>1, <1>3, <1>4, <1>5 DEF PlainlyWrites

LEMMA ShellShows ==
    ASSUME NEW c \in ToolCalls, c.kind = "shell", NEW f \in c.plain
    PROVE  f \in ShellWrites(c.command)
  <1>1. PICK s \in ToSet(c.command) : PlainlyWrites(s, f)
    BY HooksAssumption DEF HooksAssumption
  <1>2. f \in SegmentWrites(s)
    BY <1>1, SegmentShows
  <1>. QED
    BY <1>2 DEF ShellWrites

\* What the hook after a call can tell of, the adapter of every host reports.
LEMMA AdapterReports ==
    ASSUME NEW c \in ToolCalls, NEW f \in Tells(c), aHost \in AgentHosts
    PROVE  WriteOf(f) \in Report(c)
  <1>0. aHost \in {"claude-code", "codex", "gemini-cli", "antigravity"}
    BY HooksAssumption DEF HooksAssumption
  <1>1. /\ c.kind = "edit" => f \in c.fields /\ (aHost = "codex" => f \in c.patch)
        /\ c.kind = "shell" => f \in ShellWrites(c.command) /\ ~Gemini
        /\ c.kind \in {"edit", "shell"}
    <2>1. f \in Shown(c)
      BY DEF Tells
    <2>2. CASE c.kind = "edit"
      <3>1. f \in Owed(c) /\ (aHost = "codex" => f \notin c.moved)
        BY <2>1, <2>2 DEF Shown
      <3>2. /\ Owed(c) \subseteq c.fields
            /\ Owed(c) \subseteq c.patch \cup c.moved
        BY <2>2, HooksAssumption DEF HooksAssumption, Owed
      <3>. QED
        BY <2>2, <3>1, <3>2
    <2>3. CASE c.kind = "shell"
      <3>1. f \in c.plain /\ ~Gemini
        BY <2>1, <2>3 DEF Shown
      <3>. QED
        BY <2>3, <3>1, ShellShows
    <2>4. c.kind \in {"edit", "shell"}
      BY <2>1 DEF Shown
    <2>. QED
      BY <2>2, <2>3, <2>4
  <1>2. CASE aHost = "claude-code"
    <2>1. WriteOf(f) \in ClaudeReport(c)
      BY <1>1 DEF ClaudeReport, Writes, WriteOf
    <2>. QED
      BY <1>2, <2>1 DEF Report
  <1>3. CASE aHost = "codex"
    <2>1. CASE c.kind = "edit"
      <3>1. f \in ToolPaths(c)
        BY <1>1, <1>3, <2>1 DEF ToolPaths, PatchPaths
      <3>. QED
        BY <1>3, <3>1 DEF Report, CodexReport, Writes, WriteOf
    <2>2. CASE c.kind = "shell"
      <3>1. ToolPaths(c) = {}
        BY <1>3, <2>2 DEF ToolPaths, PatchPaths
      <3>2. f \in ShellWrites(c.command)
        BY <1>1, <2>2
      <3>. QED
        BY <1>3, <3>1, <3>2 DEF Report, CodexReport, Writes, WriteOf
    <2>. QED
      BY <1>1, <2>1, <2>2
  <1>4. CASE aHost \in {"gemini-cli", "antigravity"}
    <2>1. c.kind = "edit"
      BY <1>1, <1>4 DEF Gemini
    <2>2. WriteOf(f) \in GeminiReport(c)
      BY <1>1, <2>1 DEF GeminiReport, Writes, WriteOf
    <2>. QED
      BY <1>4, <2>2 DEF Report
  <1>. QED
    BY <1>0, <1>2, <1>3, <1>4

\* Whatever is dropped of what is published, a file it was about and that the room has
\* not been told of is one the hook has failed to tell of.
LEMMA PublishFacts ==
    ASSUME NEW events, NEW named, Publish(events, named)
    PROVE  /\ \A f \in aUntold' : f \in aUntold
           /\ \A f \in aUntold' : f \in aUnwatched => f \in aUnwatched'
           /\ \A f \in aUntold' : f \in aUnreported => f \in aUnreported'
           /\ \A f \in aUntold' : WriteOf(f) \in events => f \in aUnreported'
  <1>1. PICK sent \in SUBSET events :
          LET told    == {e.path : e \in {x \in sent : x.type = "FILE_WRITE"}}
              dropped == {e.path : e \in {x \in events \ sent : x.type = "FILE_WRITE"}}
          IN  /\ aUntold' = aUntold \ told
              /\ aUnwatched' = aUnwatched \ told
              /\ aUnreported' = (aUnreported \cup (dropped \cap aUntold)) \ told
    BY DEF Publish
  <1>. DEFINE told    == {e.path : e \in {x \in sent : x.type = "FILE_WRITE"}}
              dropped == {e.path : e \in {x \in events \ sent : x.type = "FILE_WRITE"}}
  <1>2. /\ aUntold' = aUntold \ told
        /\ aUnwatched' = aUnwatched \ told
        /\ aUnreported' = (aUnreported \cup (dropped \cap aUntold)) \ told
    BY <1>1
  <1>3. ASSUME NEW f, WriteOf(f) \in events
        PROVE  f \in told \/ f \in dropped
    <2>1. WriteOf(f).type = "FILE_WRITE" /\ WriteOf(f).path = f
      BY DEF WriteOf
    <2>2. CASE WriteOf(f) \in sent
      BY <2>1, <2>2
    <2>3. CASE WriteOf(f) \notin sent
      BY <1>3, <2>1, <2>3
    <2>. QED
      BY <2>2, <2>3
  <1>. HIDE DEF told, dropped
  <1>. QED
    BY <1>2, <1>3

HooksInv == HooksShape /\ WatcherTells /\ HookTells /\ FailsClosed

\* The words a hook may say before a call.
Words == {"allowed", "silence", "denied", "unreachable"}

LEMMA HookEndsFacts ==
    ASSUME HooksShape, FailsClosed, NEW c \in ToolCalls, NEW word \in Words,
           aCalls[c] \in {"before", "cut"},
           HookEnds(c, word),
           UNCHANGED aHost
    PROVE  /\ aCalls' = [d \in ToolCalls |-> aCalls'[d]]
           /\ aWord' = [d \in ToolCalls |-> aWord'[d]]
           /\ \A d \in ToolCalls : aCalls[d] \in {"committing", "after"} => aCalls'[d] = aCalls[d]
           /\ FailsClosed'
  <1>1. /\ aCalls' = [d \in ToolCalls |-> aCalls'[d]]
        /\ aWord' = [d \in ToolCalls |-> aWord'[d]]
        /\ \A d \in ToolCalls : d # c => aCalls'[d] = aCalls[d] /\ aWord'[d] = aWord[d]
        /\ aWord'[c] = word
        /\ aCalls'[c] = IF word = "denied" \/ (word = "unreachable" /\ WritePaths(c) # {})
                        THEN "refused" ELSE "running"
    BY DEF HooksShape, HookEnds
  <1>2. \A d : ToolPaths(d)' = ToolPaths(d)
    BY DEF ToolPaths, PatchPaths, FieldPaths
  <1>3. FailsClosed'
    <2>1. ASSUME NEW d \in ToolCalls,
                 aCalls'[d] \in {"running", "committing", "after", "over"},
                 d.kind = "edit", ToolPaths(d) # {}
          PROVE  aWord'[d] \in {"allowed", "silence"}
      <3>1. CASE d = c
        BY <1>1, <2>1, <3>1 DEF WritePaths, Words
      <3>2. CASE d # c
        BY <1>1, <2>1, <3>2 DEF FailsClosed
      <3>. QED
        BY <3>1, <3>2
    <2>. QED
      BY <1>2, <2>1 DEF FailsClosed
  <1>. QED
    BY <1>1, <1>3

\* What a reply does to the call it is about.
LEMMA ReplyFacts ==
    ASSUME HooksShape, FailsClosed, NEW r \in aServing, NEW word \in Words,
           Reply(r, word),
           UNCHANGED aHost
    PROVE  /\ aCalls' = [d \in ToolCalls |-> aCalls'[d]]
           /\ aWord' = [d \in ToolCalls |-> aWord'[d]]
           /\ \A d \in ToolCalls : aCalls[d] \in {"committing", "after"} => aCalls'[d] = aCalls[d]
           /\ FailsClosed'
  <1>1. \A d : ToolPaths(d)' = ToolPaths(d)
    BY DEF ToolPaths, PatchPaths, FieldPaths
  <1>2. CASE /\ r.event = "before" /\ aCalls[r.call] = "before"
             /\ r.call \in ToolCalls
    BY <1>2, HookEndsFacts DEF Reply
  <1>3. CASE UNCHANGED <<aCalls, aWord>>
    BY <1>1, <1>3 DEF HooksShape, FailsClosed
  <1>4. CASE /\ r.event = "before" /\ aCalls[r.call] = "before"
             /\ r.call \notin ToolCalls
    <2>1. UNCHANGED <<aCalls, aWord>>
      BY <1>4 DEF Reply, HookEnds, HooksShape
    <2>. QED
      BY <1>3, <2>1
  <1>. QED
    BY <1>2, <1>3, <1>4 DEF Reply

\* Nothing told, nothing lost: whoever could tell still can.
LEMMA StillTold ==
    ASSUME HooksInv, UNCHANGED aHost,
           \A f \in aUntold' :
              /\ f \in aUntold
              /\ f \in aUnreported => f \in aUnreported',
           \A d \in ToolCalls : aCalls[d] \in {"committing", "after"}
              => aCalls'[d] \in {"committing", "after"},
           \A q \in aServing : q.event = "after" =>
              \/ \E p \in aServing' : p.event = "after" /\ p.call = q.call
              \/ \A f \in aUntold' : f \in Tells(q.call) => f \in aUnreported'
    PROVE  HookTells'
  <1>1. \A d : Tells(d)' = Tells(d)
    BY DEF Tells, Owed, Shown, Gemini
  <1>2. ASSUME NEW f \in aUntold', f \notin aUnreported'
        PROVE  HookToCome(f)'
    <2>1. HookToCome(f)
      BY <1>2 DEF HooksInv, HookTells
    <2>2. CASE \E d \in ToolCalls : f \in Tells(d) /\ aCalls[d] \in {"committing", "after"}
      BY <1>1, <2>2 DEF HookToCome
    <2>3. CASE \E q \in aServing : q.event = "after" /\ f \in Tells(q.call)
      <3>1. PICK q \in aServing : q.event = "after" /\ f \in Tells(q.call)
        BY <2>3
      <3>2. PICK p \in aServing' : p.event = "after" /\ p.call = q.call
        BY <1>2, <3>1
      <3>. QED
        BY <1>1, <3>1, <3>2 DEF HookToCome
    <2>. QED
      BY <2>1, <2>2, <2>3 DEF HookToCome
  <1>. QED
    BY <1>2 DEF HookTells

LEMMA JoinHooks ==
    ASSUME HooksInv, NEW h \in AgentHosts, Join(h)
    PROVE  HooksInv'
  <1>1. /\ aHost = "none" /\ aHost' = h /\ h # "none"
        /\ UNCHANGED <<aCalls, aWord, aServing, aDirty, aUntold, aUnwatched, aUnreported>>
    BY HooksAssumption DEF Join, HooksAssumption, agentVars, newsVars
  <1>2. aServing = {} /\ \A c \in ToolCalls : aCalls[c] = "idle"
    BY <1>1 DEF HooksInv, HooksShape
  <1>3. \A f \in aUntold : f \in aUnreported
    BY <1>2 DEF HooksInv, HookTells, HookToCome
  <1>. QED
    BY <1>1, <1>2, <1>3 DEF HooksInv, HooksShape, WatcherTells, HookTells, FailsClosed

\* Steps that change nothing but calls, words and what the daemon is asked.
LEMMA QuietStep ==
    ASSUME HooksInv, UNCHANGED <<aHost, newsVars>>,
           aHost # "none",
           aCalls' = [c \in ToolCalls |-> aCalls'[c]],
           aWord' = [c \in ToolCalls |-> aWord'[c]],
           \A d \in ToolCalls : aCalls[d] \in {"committing", "after"}
              => aCalls'[d] \in {"committing", "after"},
           FailsClosed',
           \A q \in aServing : q.event = "after" =>
              \E p \in aServing' : p.event = "after" /\ p.call = q.call,
           \A r \in aServing' :
              /\ r = [event |-> r.event, call |-> r.call, stage |-> r.stage]
              /\ r.event = "after" => r.call \in ToolCalls
    PROVE  HooksInv'
  <1>1. UNCHANGED <<aDirty, aUntold, aUnwatched, aUnreported>>
    BY DEF newsVars
  <1>2. HookTells'
    BY <1>1, StillTold
  <1>3. HooksShape'
    BY DEF HooksInv, HooksShape
  <1>4. WatcherTells'
    BY <1>1 DEF HooksInv, WatcherTells
  <1>. QED
    BY <1>2, <1>3, <1>4 DEF HooksInv

\* A request is a record, and one more of them leaves the others.
LEMMA AsksFacts ==
    ASSUME HooksShape, NEW event, NEW c, Asks(event, c),
           event = "after" => c \in ToolCalls
    PROVE  /\ \A q \in aServing : q \in aServing'
           /\ \A r \in aServing' :
                 /\ r = [event |-> r.event, call |-> r.call, stage |-> r.stage]
                 /\ r.event = "after" => r.call \in ToolCalls
           /\ aUp => \E r \in aServing' : r.event = event /\ r.call = c
  <1>. DEFINE new == Request(event, c)
  <1>1. /\ new = [event |-> new.event, call |-> new.call, stage |-> new.stage]
        /\ new.event = event /\ new.call = c
    BY DEF Request
  <1>2. aServing' = IF aUp THEN aServing \cup {new} ELSE aServing
    BY DEF Asks
  <1>. HIDE DEF new
  <1>. QED
    BY <1>1, <1>2 DEF HooksShape

LEMMA BeginsHooks ==
    ASSUME HooksInv, NEW c \in ToolCalls, Begin(c)
    PROVE  HooksInv'
  <1>1. /\ UNCHANGED <<aHost, newsVars, aWord>> /\ aHost # "none" /\ aCalls[c] = "idle"
        /\ aCalls' = [aCalls EXCEPT ![c] = IF HookedBefore(c) THEN "before" ELSE "running"]
    BY DEF Begin
  <1>2. /\ aCalls' = [d \in ToolCalls |-> aCalls'[d]]
        /\ aWord' = [d \in ToolCalls |-> aWord'[d]]
        /\ \A d \in ToolCalls : aCalls'[d] = IF d # c THEN aCalls[d]
                                             ELSE IF HookedBefore(c) THEN "before" ELSE "running"
    BY <1>1 DEF HooksInv, HooksShape
  <1>3. \A d : ToolPaths(d)' = ToolPaths(d)
    BY <1>1 DEF ToolPaths, PatchPaths, FieldPaths
  <1>4. FailsClosed'
    <2>1. c.kind = "edit" => HookedBefore(c)
      BY DEF HookedBefore
    <2>. QED
      BY <1>1, <1>2, <1>3, <2>1 DEF HooksInv, FailsClosed
  <1>5. Asks("before", c) \/ UNCHANGED aServing
    BY DEF Begin
  <1>6. /\ \A q \in aServing : q \in aServing'
        /\ \A r \in aServing' :
              /\ r = [event |-> r.event, call |-> r.call, stage |-> r.stage]
              /\ r.event = "after" => r.call \in ToolCalls
    BY <1>5, AsksFacts DEF HooksInv, HooksShape
  <1>. QED
    BY <1>1, <1>2, <1>4, <1>6, QuietStep

LEMMA HookAlone ==
    ASSUME HooksInv, NEW c \in ToolCalls, Unanswered(c) \/ Silent(c)
    PROVE  HooksInv'
  <1>1. PICK word \in {"unreachable", "silence"} :
           /\ aCalls[c] \in {"before", "cut"}
           /\ HookEnds(c, word)
           /\ UNCHANGED <<aHost, newsVars, aServing>>
    BY DEF Unanswered, Silent, daemonVars
  <1>2. word \in Words
    BY DEF Words
  <1>3. aHost # "none"
    BY <1>1 DEF HooksInv, HooksShape
  <1>4. /\ aCalls' = [d \in ToolCalls |-> aCalls'[d]]
        /\ aWord' = [d \in ToolCalls |-> aWord'[d]]
        /\ \A d \in ToolCalls : aCalls[d] \in {"committing", "after"} => aCalls'[d] = aCalls[d]
        /\ FailsClosed'
    BY <1>1, <1>2, HookEndsFacts DEF HooksInv
  <1>5. \A r \in aServing' :
              /\ r = [event |-> r.event, call |-> r.call, stage |-> r.stage]
              /\ r.event = "after" => r.call \in ToolCalls
    BY <1>1 DEF HooksInv, HooksShape
  <1>6. \A q \in aServing : q.event = "after" =>
              \E p \in aServing' : p.event = "after" /\ p.call = q.call
    BY <1>1
  <1>7. \A d \in ToolCalls : aCalls[d] \in {"committing", "after"}
              => aCalls'[d] \in {"committing", "after"}
    BY <1>4
  <1>. QED
    BY <1>1, <1>3, <1>4, <1>5, <1>6, <1>7, QuietStep

LEMMA TurnsHooks ==
    ASSUME HooksInv, NEW event \in Turns, Turn(event)
    PROVE  HooksInv'
  <1>1. /\ UNCHANGED <<aHost, newsVars, aCalls, aWord>> /\ aUp
        /\ Asks(event, Session) /\ event # "after"
    BY DEF Turn, Turns
  <1>2. aHost # "none"
    BY <1>1 DEF HooksInv, HooksShape
  <1>3. /\ \A q \in aServing : q \in aServing'
        /\ \A r \in aServing' :
              /\ r = [event |-> r.event, call |-> r.call, stage |-> r.stage]
              /\ r.event = "after" => r.call \in ToolCalls
    BY <1>1, AsksFacts DEF HooksInv
  <1>4. \A d : ToolPaths(d)' = ToolPaths(d)
    BY <1>1 DEF ToolPaths, PatchPaths, FieldPaths
  <1>5. FailsClosed'
    BY <1>1, <1>4 DEF HooksInv, FailsClosed
  <1>6. /\ aCalls' = [c \in ToolCalls |-> aCalls'[c]]
        /\ aWord' = [c \in ToolCalls |-> aWord'[c]]
    BY <1>1 DEF HooksInv, HooksShape
  <1>. QED
    BY <1>1, <1>2, <1>3, <1>5, <1>6, QuietStep

\* A tool that changes a file the hook after it cannot tell of leaves it to the watcher,
\* and one that no hook comes after tells of nothing.
LEMMA ToolRuns ==
    ASSUME HooksInv, NEW c \in ToolCalls, RunTool(c)
    PROVE  HooksInv'
  <1>. DEFINE next == IF c.staged # {} THEN "committing"
                      ELSE IF HookedAfter(c) THEN "after" ELSE "over"
  <1>1. /\ aCalls[c] = "running"
        /\ aCalls' = [aCalls EXCEPT ![c] = next]
        /\ aUntold' = aUntold \cup Owed(c)
        /\ aDirty' = aDirty \cup Seen(c)
        /\ aUnwatched' = aUnwatched \cup (Owed(c) \ Seen(c))
        /\ aUnreported' = aUnreported \cup (Owed(c) \ Shown(c))
        /\ UNCHANGED <<aHost, aWord, aServing, aUp>>
    BY DEF RunTool, daemonVars
  <1>2. /\ aCalls' = [d \in ToolCalls |-> aCalls'[d]]
        /\ \A d \in ToolCalls : aCalls'[d] = IF d = c THEN next ELSE aCalls[d]
    BY <1>1 DEF HooksInv, HooksShape
  <1>3. HooksShape'
    <2>1. aHost # "none"
      BY <1>1 DEF HooksInv, HooksShape
    <2>. QED
      BY <1>1, <1>2, <2>1 DEF HooksInv, HooksShape
  <1>4. WatcherTells'
    BY <1>1 DEF HooksInv, WatcherTells
  <1>5. \A d : /\ Tells(d)' = Tells(d)
               /\ ToolPaths(d)' = ToolPaths(d)
    BY <1>1 DEF Tells, Owed, Shown, Gemini, ToolPaths, PatchPaths, FieldPaths
  <1>6. FailsClosed'
    BY <1>1, <1>2, <1>5 DEF HooksInv, FailsClosed
  <1>7. ASSUME NEW f \in Tells(c)
        PROVE  next \in {"committing", "after"}
    <2>1. c.kind \in {"edit", "shell"}
      BY <1>7 DEF Tells, Shown
    <2>. QED
      BY <2>1 DEF HookedAfter, HookedBefore
  <1>8. ASSUME NEW f \in aUntold', f \notin aUnreported'
        PROVE  HookToCome(f)'
    <2>1. CASE f \in Tells(c)
      BY <1>2, <1>5, <1>7, <2>1 DEF HookToCome
    <2>2. CASE f \notin Tells(c)
      <3>1. f \in aUntold /\ f \notin aUnreported
        BY <1>1, <1>8, <2>2 DEF Tells
      <3>2. HookToCome(f)
        BY <3>1 DEF HooksInv, HookTells
      <3>3. \A d \in ToolCalls : aCalls[d] \in {"committing", "after"} => aCalls'[d] = aCalls[d]
        BY <1>1, <1>2
      <3>. QED
        BY <1>1, <1>5, <3>2, <3>3 DEF HookToCome
    <2>. QED
      BY <2>1, <2>2
  <1>. QED
    BY <1>3, <1>4, <1>6, <1>8 DEF HooksInv, HookTells

LEMMA CommitsHooks ==
    ASSUME HooksInv, NEW c \in ToolCalls, Commit(c)
    PROVE  HooksInv'
  <1>1. /\ aCalls[c] = "committing"
        /\ aCalls' = [aCalls EXCEPT ![c] = "after"]
        /\ Publish(GitReport(c), FALSE) \/ UNCHANGED <<aUntold, aUnwatched, aUnreported>>
        /\ UNCHANGED <<aHost, aWord, aDirty, aServing, aUp>>
    BY DEF Commit
  <1>2. /\ \A f \in aUntold' : f \in aUntold
        /\ \A f \in aUntold' : f \in aUnwatched => f \in aUnwatched'
        /\ \A f \in aUntold' : f \in aUnreported => f \in aUnreported'
    BY <1>1, PublishFacts
  <1>3. /\ aCalls' = [d \in ToolCalls |-> aCalls'[d]]
        /\ \A d \in ToolCalls : aCalls'[d] = IF d = c THEN "after" ELSE aCalls[d]
    BY <1>1 DEF HooksInv, HooksShape
  <1>4. HooksShape'
    <2>1. aHost # "none"
      BY <1>1 DEF HooksInv, HooksShape
    <2>. QED
      BY <1>1, <1>3, <2>1 DEF HooksInv, HooksShape
  <1>5. WatcherTells'
    BY <1>1, <1>2 DEF HooksInv, WatcherTells
  <1>6. HookTells'
    <2>1. \A d \in ToolCalls : aCalls[d] \in {"committing", "after"}
             => aCalls'[d] \in {"committing", "after"}
      BY <1>3
    <2>2. \A q \in aServing : q.event = "after" =>
             \E p \in aServing' : p.event = "after" /\ p.call = q.call
      BY <1>1
    <2>. QED
      BY <1>1, <1>2, <2>1, <2>2, StillTold
  <1>7. FailsClosed'
    <2>1. \A d : ToolPaths(d)' = ToolPaths(d)
      BY <1>1 DEF ToolPaths, PatchPaths, FieldPaths
    <2>. QED
      BY <1>1, <1>3, <2>1 DEF HooksInv, FailsClosed
  <1>. QED
    BY <1>4, <1>5, <1>6, <1>7 DEF HooksInv

LEMMA ReportsHooks ==
    ASSUME HooksInv, NEW c \in ToolCalls, AfterTool(c)
    PROVE  HooksInv'
  <1>1. /\ aCalls[c] = "after"
        /\ aCalls' = [aCalls EXCEPT ![c] = "over"]
        /\ Asks("after", c)
        /\ aUnreported' = IF aUp THEN aUnreported ELSE aUnreported \cup (Owed(c) \cap aUntold)
        /\ UNCHANGED <<aHost, aWord, aDirty, aUntold, aUnwatched, aUp>>
    BY DEF AfterTool, DaemonRests
  <1>2. /\ \A q \in aServing : q \in aServing'
        /\ \A r \in aServing' :
              /\ r = [event |-> r.event, call |-> r.call, stage |-> r.stage]
              /\ r.event = "after" => r.call \in ToolCalls
        /\ aUp => \E r \in aServing' : r.event = "after" /\ r.call = c
    BY <1>1, AsksFacts DEF HooksInv
  <1>3. /\ aCalls' = [d \in ToolCalls |-> aCalls'[d]]
        /\ \A d \in ToolCalls : aCalls'[d] = IF d = c THEN "over" ELSE aCalls[d]
    BY <1>1 DEF HooksInv, HooksShape
  <1>4. HooksShape'
    <2>1. aHost # "none"
      BY <1>1 DEF HooksInv, HooksShape
    <2>. QED
      BY <1>1, <1>2, <1>3, <2>1 DEF HooksInv, HooksShape
  <1>5. WatcherTells'
    BY <1>1 DEF HooksInv, WatcherTells
  <1>6. \A d : /\ Tells(d)' = Tells(d)
               /\ ToolPaths(d)' = ToolPaths(d)
    BY <1>1 DEF Tells, Owed, Shown, Gemini, ToolPaths, PatchPaths, FieldPaths
  <1>7. FailsClosed'
    BY <1>1, <1>3, <1>6 DEF HooksInv, FailsClosed
  <1>8. ASSUME NEW f \in aUntold', f \notin aUnreported'
        PROVE  HookToCome(f)'
    <2>1. f \in aUntold /\ f \notin aUnreported
      BY <1>1, <1>8
    <2>2. HookToCome(f)
      BY <2>1 DEF HooksInv, HookTells
    <2>3. CASE f \in Tells(c)
      <3>1. aUp
        BY <1>1, <1>8, <2>1, <2>3 DEF Tells
      <3>2. PICK r \in aServing' : r.event = "after" /\ r.call = c
        BY <1>2, <3>1
      <3>. QED
        BY <1>6, <2>3, <3>2 DEF HookToCome
    <2>4. CASE f \notin Tells(c)
      BY <1>2, <1>3, <1>6, <2>2, <2>4 DEF HookToCome
    <2>. QED
      BY <2>3, <2>4
  <1>. QED
    BY <1>4, <1>5, <1>7, <1>8 DEF HooksInv, HookTells

\* The daemon's replies: what they are about is settled, the rest is as it was.
LEMMA Settles ==
    ASSUME HooksInv, NEW r \in aServing, NEW word \in Words,
           Done(r), Reply(r, word) \/ UNCHANGED <<aCalls, aWord>>,
           UNCHANGED <<aHost, aDirty, aUp>>,
           \A f \in aUntold' :
              /\ f \in aUntold
              /\ f \in aUnwatched => f \in aUnwatched'
              /\ f \in aUnreported => f \in aUnreported',
           r.event = "after" => \A f \in aUntold' : f \in Tells(r.call) => f \in aUnreported'
    PROVE  HooksInv'
  <1>1. /\ aCalls' = [d \in ToolCalls |-> aCalls'[d]]
        /\ aWord' = [d \in ToolCalls |-> aWord'[d]]
        /\ \A d \in ToolCalls : aCalls[d] \in {"committing", "after"} => aCalls'[d] = aCalls[d]
        /\ FailsClosed'
    <2>1. CASE Reply(r, word)
      BY <2>1, ReplyFacts DEF HooksInv
    <2>2. CASE UNCHANGED <<aCalls, aWord>>
      <3>1. \A d : ToolPaths(d)' = ToolPaths(d)
        BY DEF ToolPaths, PatchPaths, FieldPaths
      <3>. QED
        BY <2>2, <3>1 DEF HooksInv, HooksShape, FailsClosed
    <2>. QED
      BY <2>1, <2>2
  <1>2. aServing' = aServing \ {r}
    BY DEF Done
  <1>3. HooksShape'
    <2>1. aHost # "none"
      BY DEF HooksInv, HooksShape
    <2>. QED
      BY <1>1, <1>2, <2>1 DEF HooksInv, HooksShape
  <1>4. WatcherTells'
    BY DEF HooksInv, WatcherTells
  <1>5. \A q \in aServing : q.event = "after" =>
              \/ \E p \in aServing' : p.event = "after" /\ p.call = q.call
              \/ \A f \in aUntold' : f \in Tells(q.call) => f \in aUnreported'
    BY <1>2
  <1>6. HookTells'
    <2>1. \A d \in ToolCalls : aCalls[d] \in {"committing", "after"}
             => aCalls'[d] \in {"committing", "after"}
      BY <1>1
    <2>. QED
      BY <1>5, <2>1, StillTold
  <1>. QED
    BY <1>1, <1>3, <1>4, <1>6 DEF HooksInv

LEMMA RepliesHooks ==
    ASSUME HooksInv, NEW r \in aServing, ReplyError(r) \/ Deny(r) \/ Deliver(r)
    PROVE  HooksInv'
  <1>0. "unreachable" \in Words /\ "denied" \in Words
    BY DEF Words
  <1>1. CASE ReplyError(r)
    <2>1. /\ Done(r) /\ Reply(r, "unreachable")
          /\ UNCHANGED <<aHost, aDirty, aUp, aUntold, aUnwatched>>
          /\ aUnreported' = IF r.event = "after"
                            THEN aUnreported \cup (Owed(r.call) \cap aUntold) ELSE aUnreported
      BY <1>1 DEF ReplyError, DaemonRests
    <2>2. \A f \in aUntold' :
             /\ f \in aUntold
             /\ f \in aUnwatched => f \in aUnwatched'
             /\ f \in aUnreported => f \in aUnreported'
      BY <2>1
    <2>3. r.event = "after" => \A f \in aUntold' : f \in Tells(r.call) => f \in aUnreported'
      BY <2>1 DEF Tells
    <2>. QED
      BY <1>0, <2>1, <2>2, <2>3, Settles
  <1>2. CASE Deny(r)
    <2>1. /\ Done(r) /\ Reply(r, "denied") /\ r.event = "before"
          /\ UNCHANGED <<aHost, aDirty, aUp, aUntold, aUnwatched, aUnreported>>
      BY <1>2 DEF Deny, DaemonRests, newsVars
    <2>. QED
      BY <1>0, <2>1, Settles
  <1>3. CASE Deliver(r)
    <2>1. /\ Done(r) /\ UNCHANGED <<aCalls, aWord>> /\ r.event = "stop"
          /\ UNCHANGED <<aHost, aDirty, aUp, aUntold, aUnwatched, aUnreported>>
      BY <1>3 DEF Deliver, DaemonRests, newsVars, agentVars
    <2>. QED
      BY <1>0, <2>1, Settles
  <1>. QED
    BY <1>1, <1>2, <1>3

LEMMA NormalisesHooks ==
    ASSUME HooksInv, NEW r \in aServing, NEW named, NEW names, Normalise(r, named, names)
    PROVE  HooksInv'
  <1>1. /\ Done(r) /\ Publish(Says(r, names), named) /\ Reply(r, "allowed")
        /\ UNCHANGED <<aHost, aDirty, aUp>>
    BY DEF Normalise
  <1>2. /\ \A f \in aUntold' : f \in aUntold
        /\ \A f \in aUntold' : f \in aUnwatched => f \in aUnwatched'
        /\ \A f \in aUntold' : f \in aUnreported => f \in aUnreported'
        /\ \A f \in aUntold' : WriteOf(f) \in Says(r, names) => f \in aUnreported'
    BY <1>1, PublishFacts
  <1>3. aHost \in AgentHosts
    BY DEF HooksInv, HooksShape
  <1>4. ASSUME r.event = "after", NEW f \in aUntold', f \in Tells(r.call)
        PROVE  f \in aUnreported'
    <2>1. r.call \in ToolCalls
      BY <1>4 DEF HooksInv, HooksShape
    <2>2. WriteOf(f) \in Report(r.call)
      BY <1>3, <1>4, <2>1, AdapterReports
    <2>3. Says(r, names) = Report(r.call)
      BY <1>4 DEF Says
    <2>. QED
      BY <1>2, <2>2, <2>3
  <1>5. "allowed" \in Words
    BY DEF Words
  <1>. QED
    BY <1>1, <1>2, <1>4, <1>5, Settles

LEMMA NamesHooks ==
    ASSUME HooksInv, NEW r \in aServing, StartNaming(r)
    PROVE  HooksInv'
  <1>. DEFINE new == [r EXCEPT !.stage = "naming"]
  <1>1. /\ aServing' = (aServing \ {r}) \cup {new}
        /\ UNCHANGED <<aHost, aCalls, aWord, newsVars>>
    BY DEF StartNaming, agentVars
  <1>2. /\ r = [event |-> r.event, call |-> r.call, stage |-> r.stage]
        /\ r.event = "after" => r.call \in ToolCalls
    BY DEF HooksInv, HooksShape
  <1>3. /\ new = [event |-> new.event, call |-> new.call, stage |-> new.stage]
        /\ new.event = r.event /\ new.call = r.call
    BY <1>2
  <1>. HIDE DEF new
  <1>4. aHost # "none"
    BY DEF HooksInv, HooksShape
  <1>5. \A q \in aServing' :
           /\ q = [event |-> q.event, call |-> q.call, stage |-> q.stage]
           /\ q.event = "after" => q.call \in ToolCalls
    BY <1>1, <1>2, <1>3 DEF HooksInv, HooksShape
  <1>6. \A q \in aServing : q.event = "after" =>
              \E p \in aServing' : p.event = "after" /\ p.call = q.call
    BY <1>1, <1>3
  <1>7. FailsClosed'
    <2>1. \A d : ToolPaths(d)' = ToolPaths(d)
      BY <1>1 DEF ToolPaths, PatchPaths, FieldPaths
    <2>. QED
      BY <1>1, <2>1 DEF HooksInv, FailsClosed
  <1>8. /\ aCalls' = [c \in ToolCalls |-> aCalls'[c]]
        /\ aWord' = [c \in ToolCalls |-> aWord'[c]]
    BY <1>1 DEF HooksInv, HooksShape
  <1>. QED
    BY <1>1, <1>4, <1>5, <1>6, <1>7, <1>8, QuietStep

LEMMA FlushesHooks ==
    ASSUME HooksInv, Flush
    PROVE  HooksInv'
  <1>1. /\ aDirty' = {}
        /\ aUntold' = aUntold \ aDirty
        /\ aUnwatched' = aUnwatched \ aDirty
        /\ aUnreported' = aUnreported \ aDirty
        /\ UNCHANGED <<aHost, aCalls, aWord, aServing, aUp>>
    BY DEF Flush, agentVars, daemonVars
  <1>2. HooksShape' /\ WatcherTells'
    BY <1>1 DEF HooksInv, HooksShape, WatcherTells
  <1>3. HookTells'
    <2>1. /\ \A d \in ToolCalls : aCalls[d] \in {"committing", "after"}
                => aCalls'[d] \in {"committing", "after"}
          /\ \A q \in aServing : q.event = "after" =>
                \E p \in aServing' : p.event = "after" /\ p.call = q.call
          /\ \A f \in aUntold' : f \in aUntold /\ (f \in aUnreported => f \in aUnreported')
      BY <1>1
    <2>. QED
      BY <1>1, <2>1, StillTold
  <1>4. FailsClosed'
    <2>1. \A d : ToolPaths(d)' = ToolPaths(d)
      BY <1>1 DEF ToolPaths, PatchPaths, FieldPaths
    <2>. QED
      BY <1>1, <2>1 DEF HooksInv, FailsClosed
  <1>. QED
    BY <1>2, <1>3, <1>4 DEF HooksInv

\* The hooks a dead daemon was serving tell of nothing, nor does its watcher.
LEMMA DaemonGoesHooks ==
    ASSUME HooksInv, DaemonGoes
    PROVE  HooksInv'
  <1>1. /\ aUp /\ ~aUp' /\ aServing' = {} /\ aDirty' = {}
        /\ aCalls' = [c \in ToolCalls |->
                         IF aCalls[c] = "before" /\ \E r \in aServing : r.event = "before" /\ r.call = c
                         THEN "cut" ELSE aCalls[c]]
        /\ aUnwatched' = aUnwatched \cup aDirty
        /\ aUnreported' = aUnreported \cup
              (aUntold \cap UNION {Owed(r.call) : r \in {q \in aServing : q.event = "after"}})
        /\ UNCHANGED <<aHost, aWord, aUntold>>
    BY DEF DaemonGoes
  <1>2. /\ \A c \in ToolCalls : aCalls'[c] = aCalls[c] \/ aCalls'[c] = "cut"
        /\ \A c \in ToolCalls : aCalls[c] # "before" => aCalls'[c] = aCalls[c]
        /\ aCalls' = [c \in ToolCalls |-> aCalls'[c]]
    BY <1>1
  <1>3. HooksShape'
    <2>1. aHost # "none"
      BY <1>1 DEF HooksInv, HooksShape
    <2>. QED
      BY <1>1, <1>2, <2>1 DEF HooksInv, HooksShape
  <1>4. WatcherTells'
    BY <1>1 DEF HooksInv, WatcherTells
  <1>5. HookTells'
    <2>1. /\ \A d \in ToolCalls : aCalls[d] \in {"committing", "after"}
                => aCalls'[d] \in {"committing", "after"}
          /\ \A f \in aUntold' : f \in aUntold /\ (f \in aUnreported => f \in aUnreported')
      BY <1>1, <1>2
    <2>2. \A q \in aServing : q.event = "after" =>
             \A f \in aUntold' : f \in Tells(q.call) => f \in aUnreported'
      BY <1>1 DEF Tells
    <2>. QED
      BY <1>1, <2>1, <2>2, StillTold
  <1>6. FailsClosed'
    <2>1. \A d : ToolPaths(d)' = ToolPaths(d)
      BY <1>1 DEF ToolPaths, PatchPaths, FieldPaths
    <2>2. \A c \in ToolCalls : aCalls'[c] \in {"running", "committing", "after", "over"}
             => aCalls'[c] = aCalls[c]
      BY <1>2
    <2>. QED
      BY <1>1, <2>1, <2>2 DEF HooksInv, FailsClosed
  <1>. QED
    BY <1>3, <1>4, <1>5, <1>6 DEF HooksInv

\* The replica and a daemon that comes back are none of theirs.
LEMMA RestingHooks ==
    ASSUME HooksInv, \/ Learn \/ DaemonReturns \/ UNCHANGED hookVars
    PROVE  HooksInv'
  <1>1. /\ UNCHANGED <<aHost, aCalls, aWord, aServing, aDirty, aUntold, aUnwatched, aUnreported>>
        /\ aHost = "none" => aUp' = aUp
    BY DEF Learn, DaemonReturns, hookVars, agentVars, newsVars, daemonVars
  <1>2. \A d : /\ Tells(d)' = Tells(d)
               /\ ToolPaths(d)' = ToolPaths(d)
    BY <1>1 DEF Tells, Owed, Shown, Gemini, ToolPaths, PatchPaths, FieldPaths
  <1>3. HooksShape'
    BY <1>1 DEF HooksInv, HooksShape
  <1>4. WatcherTells' /\ HookTells'
    BY <1>1, <1>2 DEF HooksInv, WatcherTells, HookTells, HookToCome
  <1>5. FailsClosed'
    BY <1>1, <1>2 DEF HooksInv, FailsClosed
  <1>. QED
    BY <1>3, <1>4, <1>5 DEF HooksInv

LEMMA StepHooks ==
    ASSUME HooksInv, [NextHooks]_hookVars
    PROVE  HooksInv'
  <1>1. CASE \E h \in AgentHosts : Join(h)
    BY <1>1, JoinHooks
  <1>2. CASE \E c \in ToolCalls : \/ Begin(c) \/ Unanswered(c) \/ Silent(c)
                                  \/ RunTool(c) \/ Commit(c) \/ AfterTool(c)
    BY <1>2, BeginsHooks, HookAlone, ToolRuns, CommitsHooks, ReportsHooks
  <1>3. CASE \E event \in Turns : Turn(event)
    BY <1>3, TurnsHooks
  <1>4. ASSUME NEW r \in aServing, NEW ok \in BOOLEAN, NamingEnds(r, ok)
        PROVE  HooksInv'
    BY <1>4, NormalisesHooks DEF NamingEnds
  <1>5. ASSUME NEW r \in aServing, PassOn(r)
        PROVE  HooksInv'
    BY <1>5, NormalisesHooks DEF PassOn
  <1>6. CASE \E r \in aServing : ReplyError(r) \/ Deny(r) \/ Deliver(r) \/ StartNaming(r)
    BY <1>6, RepliesHooks, NamesHooks
  <1>7. CASE Learn \/ Flush \/ DaemonGoes \/ DaemonReturns \/ UNCHANGED hookVars
    BY <1>7, RestingHooks, FlushesHooks, DaemonGoesHooks
  <1>. QED
    BY <1>1, <1>2, <1>3, <1>4, <1>5, <1>6, <1>7 DEF NextHooks

LEMMA InitialHooks ==
    ASSUME InitHooks
    PROVE  HooksInv
  BY DEF InitHooks, HooksInv, HooksShape, WatcherTells, HookTells, FailsClosed

\* Of a change nobody will tell of any more, both have failed.
LEMMA NobodyLeft ==
    ASSUME HooksInv
    PROVE  NoSilentWrite
  <1>1. ASSUME NEW f \in aUntold, HookToCome(f)
        PROVE  ToTell(f)
    BY <1>1 DEF HookToCome, ToTell, Tells
  <1>. QED
    BY <1>1 DEF HooksInv, WatcherTells, HookTells, NoSilentWrite, ToTell
-----------------------------------------------------------------------------
(***************************************************************************)
(* The panel.  The answers it listens to are to a request about what is on *)
(* it.                                                                     *)
(***************************************************************************)
DraftFields == {"collision", "phase", "raw", "contract", "explanation"}

Own(draft) ==
    /\ draft = [f \in DraftFields |-> draft[f]]
    /\ draft.raw \cup draft.contract \cup draft.explanation \subseteq {draft.collision}

\* A panel that listens to the request ask, the last of asks, while these run.
Listens(current, ask, asks, running) ==
    /\ asks \in Nat
    /\ ask \in 0 .. asks
    /\ current = Nothing => ask = 0
    /\ \A r \in running :
          /\ r.id \in 1 .. asks
          /\ r.id = ask => current # Nothing /\ r.about = current.collision

PanelInv ==
    /\ vCurrent # Nothing => Own(vCurrent)
    /\ Listens(vCurrent, vAskId, vAsks, vRunning)
    /\ \A proposal \in vOutgoing : proposal.contract \subseteq {proposal.collision}

\* The steps that only change what is drafted.
PanelChange ==
    /\ vCurrent' # Nothing => Own(vCurrent')
    /\ Listens(vCurrent', vAskId', vAsks', vRunning')

LEMMA OwnFacts ==
    ASSUME NEW draft, Own(draft)
    PROVE  /\ draft # Nothing
           /\ draft.raw \subseteq {draft.collision}
           /\ draft.contract \subseteq {draft.collision}
           /\ draft.explanation \subseteq {draft.collision}
  <1>1. draft = [f \in DraftFields |-> draft[f]]
    BY DEF Own
  <1>2. DOMAIN draft = DraftFields /\ DOMAIN Nothing = {"phase"}
    BY <1>1 DEF Nothing
  <1>3. draft # Nothing
    BY <1>2 DEF DraftFields
  <1>. QED
    BY <1>3 DEF Own

LEMMA BlankFacts ==
    ASSUME NEW c
    PROVE  /\ Own(Blank(c)) /\ Blank(c).collision = c
           /\ Own(FromFacts(c)) /\ FromFacts(c).collision = c
  <1>. DEFINE b == Blank(c)
              d == FromFacts(c)
  <1>1. /\ b = [f \in DraftFields |-> b[f]]
        /\ b.collision = c /\ b.raw = {} /\ b.contract = {} /\ b.explanation = {}
    BY DEF Blank, DraftFields
  <1>2. d = [b EXCEPT !.phase = "ready", !.contract = {c}, !.explanation = {c}]
    BY DEF FromFacts
  <1>. HIDE DEF b, d
  <1>3. /\ d = [f \in DraftFields |-> d[f]]
        /\ d.collision = c /\ d.raw = {} /\ d.contract = {c} /\ d.explanation = {c}
    BY <1>1, <1>2 DEF DraftFields
  <1>4. Own(b) /\ Own(d)
    BY <1>1, <1>3 DEF Own
  <1>. QED
    BY <1>1, <1>3, <1>4 DEF b, d

\* A new request is about what is on the panel, and nothing that runs has its number.
LEMMA AskListens ==
    ASSUME NEW c, NEW running, NEW draft,
           vAsks \in Nat, \A r \in running : r.id \in 1 .. vAsks,
           draft # Nothing, draft.collision = c,
           Ask(c, running)
    PROVE  Listens(draft, vAskId', vAsks', vRunning')
  <1>. DEFINE request == [id |-> vAsks + 1, about |-> c]
  <1>1. /\ vAsks' = vAsks + 1 /\ vAskId' = vAsks + 1
        /\ vRunning' \subseteq running \cup {request}
    BY DEF Ask
  <1>2. request.id = vAsks + 1 /\ request.about = c
    OBVIOUS
  <1>. HIDE DEF request
  <1>3. ASSUME NEW r \in vRunning'
        PROVE  /\ r.id \in 1 .. vAsks + 1
               /\ r.id = vAsks + 1 => r.about = c
    <2>1. r \in running \/ r = request
      BY <1>1
    <2>. QED
      BY <1>2, <2>1
  <1>. QED
    BY <1>1, <1>3 DEF Listens

LEMMA TakesNext ==
    ASSUME PanelInv, NEW queue, NEW ask, TakeNext(queue, ask),
           ask = 0
    PROVE  PanelChange
  <1>1. /\ vAsks \in Nat
        /\ \A r \in vRunning : r.id \in 1 .. vAsks
    BY DEF PanelInv, Listens
  <1>2. \A draft : Listens(draft, 0, vAsks, vRunning)
    BY <1>1 DEF Listens
  <1>3. CASE queue = <<>>
    BY <1>2, <1>3 DEF TakeNext, NoAsk, PanelChange
  <1>4. CASE queue # <<>> /\ vPhase' = "ready"
    <2>. DEFINE c == Head(queue)
    <2>1. vCurrent' = Blank(c) /\ Ask(c, vRunning)
      BY <1>4 DEF TakeNext, Explain
    <2>. HIDE DEF c
    <2>2. Own(Blank(c)) /\ Blank(c).collision = c
      BY BlankFacts
    <2>3. Listens(Blank(c), vAskId', vAsks', vRunning')
      BY <1>1, <2>1, <2>2, AskListens, OwnFacts
    <2>. QED
      BY <2>1, <2>2, <2>3 DEF PanelChange
  <1>5. CASE queue # <<>> /\ vPhase' # "ready"
    <2>. DEFINE c == Head(queue)
    <2>1. vCurrent' = FromFacts(c) /\ vAskId' = ask /\ NoAsk
      BY <1>5 DEF TakeNext
    <2>. HIDE DEF c
    <2>2. Own(FromFacts(c))
      BY BlankFacts
    <2>. QED
      BY <1>2, <2>1, <2>2 DEF PanelChange, NoAsk
  <1>. QED
    BY <1>3, <1>4, <1>5

LEMMA Pumps ==
    ASSUME PanelInv, NEW queue, PumpPanel(queue)
    PROVE  PanelChange
  <1>1. CASE vCurrent = Nothing
    <2>1. TakeNext(queue, vAskId) /\ vAskId = 0
      BY <1>1 DEF PumpPanel, PanelInv, Listens
    <2>. QED
      BY <2>1, TakesNext
  <1>2. CASE vCurrent # Nothing
    BY <1>2 DEF PumpPanel, NoAsk, PanelInv, PanelChange
  <1>. QED
    BY <1>1, <1>2

\* A draft with other parts, and what they are about.
Edited(draft, phase, raw, contract, explanation) ==
    [draft EXCEPT !.phase = phase, !.raw = raw, !.contract = contract,
                  !.explanation = explanation]

LEMMA Redrafted ==
    ASSUME NEW draft, Own(draft), NEW phase,
           NEW raw \in SUBSET {draft.collision}, NEW contract \in SUBSET {draft.collision},
           NEW explanation \in SUBSET {draft.collision}
    PROVE  /\ Own(Edited(draft, phase, raw, contract, explanation))
           /\ Edited(draft, phase, raw, contract, explanation).collision = draft.collision
  <1>. DEFINE new == Edited(draft, phase, raw, contract, explanation)
  <1>1. draft = [f \in DraftFields |-> draft[f]]
    BY DEF Own
  <1>2. /\ new = [f \in DraftFields |-> new[f]]
        /\ new.collision = draft.collision
        /\ new.raw = raw /\ new.contract = contract /\ new.explanation = explanation
    BY <1>1 DEF DraftFields, Edited
  <1>. HIDE DEF new
  <1>3. Own(new) /\ new.collision = draft.collision
    BY <1>2 DEF Own
  <1>. QED
    BY <1>3 DEF new

\* The collision stays on the panel, and so do its requests.
LEMMA SameCollision ==
    ASSUME PanelInv, NEW draft, vCurrent # Nothing, Own(draft),
           draft.collision = vCurrent.collision,
           vCurrent' = draft,
           UNCHANGED <<vAskId, vAsks>>,
           vRunning' \subseteq vRunning
    PROVE  PanelChange
  <1>1. draft # Nothing
    BY OwnFacts
  <1>. QED
    BY <1>1 DEF PanelInv, PanelChange, Listens

LEMMA Degrades ==
    ASSUME PanelInv
    PROVE  IF vCurrent = Nothing THEN Degraded = Nothing
           ELSE Own(Degraded) /\ Degraded.collision = vCurrent.collision
  <1>1. CASE vCurrent = Nothing
    BY <1>1 DEF Degraded
  <1>2. CASE vCurrent # Nothing
    <2>. DEFINE c == vCurrent.collision
                explanation == Tidied(vCurrent.explanation, c)
                contract == Tidied(vCurrent.contract, c)
    <2>1. Own(vCurrent)
      BY <1>2 DEF PanelInv
    <2>2. explanation \in SUBSET {c} /\ contract \in SUBSET {c} /\ vCurrent.raw \in SUBSET {c}
      BY <2>1, OwnFacts DEF Tidied
    <2>3. Degraded = [vCurrent EXCEPT !.explanation = explanation, !.contract = contract,
                                      !.phase = "ready"]
      BY <1>2, <2>1 DEF Degraded, Own, DraftFields
    <2>. HIDE DEF explanation, contract
    <2>4. Degraded = Edited(vCurrent, "ready", vCurrent.raw, contract, explanation)
      <3>1. vCurrent = [f \in DraftFields |-> vCurrent[f]]
        BY <2>1 DEF Own
      <3>. QED
        BY <2>3, <3>1 DEF DraftFields, Edited
    <2>. QED
      BY <1>2, <2>1, <2>2, <2>4, Redrafted
  <1>. QED
    BY <1>1, <1>2

LEMMA DeltaPanel ==
    ASSUME PanelInv, NEW request \in vRunning, Delta(request)
    PROVE  PanelChange
  <1>. DEFINE raw == vCurrent.raw \cup {request.about}
              explanation == IF vCurrent.phase = "explaining" THEN raw ELSE vCurrent.explanation
  <1>1. /\ request.id = vAskId /\ vCurrent # Nothing
        /\ UNCHANGED <<vAskId, vAsks, vRunning>>
    BY DEF Delta, Mine
  <1>2. Own(vCurrent) /\ request.about = vCurrent.collision
    BY <1>1 DEF PanelInv, Listens
  <1>3. /\ raw \in SUBSET {vCurrent.collision} /\ explanation \in SUBSET {vCurrent.collision}
        /\ vCurrent.contract \in SUBSET {vCurrent.collision}
    BY <1>2, OwnFacts
  <1>4. vCurrent = [f \in DraftFields |-> vCurrent[f]]
    BY <1>2 DEF Own
  <1>5. vCurrent' = [vCurrent EXCEPT !.raw = raw, !.explanation = explanation]
    BY <1>4 DEF Delta, DraftFields
  <1>. HIDE DEF raw, explanation
  <1>. DEFINE draft == Edited(vCurrent, vCurrent.phase, raw, vCurrent.contract, explanation)
  <1>6. vCurrent' = draft
    BY <1>4, <1>5 DEF DraftFields, Edited
  <1>7. Own(draft) /\ draft.collision = vCurrent.collision
    BY <1>2, <1>3, Redrafted
  <1>. HIDE DEF draft
  <1>. QED
    BY <1>1, <1>6, <1>7, SameCollision

\* The contract is asked to be put into words; the explanation is the last.
LEMMA StepFinishes ==
    ASSUME PanelInv, vCurrent # Nothing, NEW running \in SUBSET vRunning, FinishStep(running)
    PROVE  PanelChange
  <1>. DEFINE c == vCurrent.collision
  <1>1. Own(vCurrent) /\ vCurrent = [f \in DraftFields |-> vCurrent[f]]
    BY DEF PanelInv, Own
  <1>2. /\ vCurrent.raw \in SUBSET {c} /\ vCurrent.contract \in SUBSET {c}
        /\ vCurrent.explanation \in SUBSET {c} /\ Tidied(vCurrent.raw, c) \in SUBSET {c}
        /\ {} \in SUBSET {c}
    BY <1>1, OwnFacts DEF Tidied
  <1>3. CASE vCurrent.phase = "drafting"
    <2>1. PICK contract \in Drafted(vCurrent.raw, c) :
             vCurrent' = [vCurrent EXCEPT !.contract = contract, !.raw = {}, !.phase = "explaining"]
      BY <1>3 DEF FinishStep
    <2>2. Ask(c, running)
      BY <1>3 DEF FinishStep
    <2>3. contract \in SUBSET {c}
      BY <1>2 DEF Drafted
    <2>. DEFINE draft == Edited(vCurrent, "explaining", {}, contract, vCurrent.explanation)
    <2>4. vCurrent' = draft
      BY <1>1, <2>1 DEF DraftFields, Edited
    <2>5. Own(draft) /\ draft.collision = c
      BY <1>1, <1>2, <2>3, Redrafted
    <2>. HIDE DEF draft
    <2>6. draft # Nothing
      BY <2>5, OwnFacts
    <2>7. vAsks \in Nat /\ \A r \in running : r.id \in 1 .. vAsks
      BY DEF PanelInv, Listens
    <2>8. Listens(draft, vAskId', vAsks', vRunning')
      BY <2>2, <2>5, <2>6, <2>7, AskListens
    <2>. QED
      BY <2>4, <2>5, <2>8 DEF PanelChange
  <1>4. CASE vCurrent.phase # "drafting"
    <2>. DEFINE explanation == Tidied(vCurrent.raw, c)
                draft == Edited(vCurrent, "ready", vCurrent.raw, vCurrent.contract, explanation)
    <2>1. /\ vCurrent' = [vCurrent EXCEPT !.explanation = explanation, !.phase = "ready"]
          /\ vRunning' = running
          /\ UNCHANGED <<vAsks, vAskId>>
      BY <1>4 DEF FinishStep
    <2>2. explanation \in SUBSET {c}
      BY <1>2
    <2>. HIDE DEF explanation
    <2>3. vCurrent' = draft
      BY <1>1, <2>1 DEF DraftFields, Edited
    <2>4. Own(draft) /\ draft.collision = c
      BY <1>1, <1>2, <2>2, Redrafted
    <2>. HIDE DEF draft
    <2>. QED
      BY <2>1, <2>3, <2>4, SameCollision
  <1>. QED
    BY <1>3, <1>4

LEMMA AnsweredPanel ==
    ASSUME PanelInv, NEW request \in vRunning, NEW well \in BOOLEAN, Answered(request, well)
    PROVE  PanelChange
  <1>. DEFINE running == vRunning \ {request}
  <1>1. CASE Mine(request.id) /\ well
    <2>1. FinishStep(running) /\ vCurrent # Nothing
      BY <1>1 DEF Answered, Mine
    <2>. QED
      BY <2>1, StepFinishes
  <1>2. CASE ~(Mine(request.id) /\ well)
    <2>1. /\ vRunning' = running
          /\ vCurrent' = IF request.id = vAskId THEN Degraded ELSE vCurrent
          /\ UNCHANGED <<vAskId, vAsks>>
      BY <1>2 DEF Answered
    <2>2. CASE vCurrent = Nothing
      BY <2>1, <2>2, Degrades DEF PanelInv, PanelChange, Listens
    <2>3. CASE vCurrent # Nothing
      <3>1. Own(Degraded) /\ Degraded.collision = vCurrent.collision /\ Own(vCurrent)
        BY <2>3, Degrades DEF PanelInv
      <3>. QED
        BY <2>1, <2>3, <3>1, SameCollision
    <2>. QED
      BY <2>2, <2>3
  <1>. QED
    BY <1>1, <1>2

LEMMA ModelExitsPanel ==
    ASSUME PanelInv, NEW code, ModelExits(code)
    PROVE  PanelChange
  <1>1. /\ vRunning' = {}
        /\ vCurrent' = vCurrent \/ vCurrent' = Degraded
        /\ UNCHANGED <<vAskId, vAsks>>
    BY DEF ModelExits
  <1>2. CASE vCurrent = Nothing
    BY <1>1, <1>2, Degrades DEF PanelInv, PanelChange, Listens
  <1>3. CASE vCurrent # Nothing
    <2>1. Own(Degraded) /\ Degraded.collision = vCurrent.collision /\ Own(vCurrent)
      BY <1>3, Degrades DEF PanelInv
    <2>. QED
      BY <1>1, <1>3, <2>1, SameCollision
  <1>. QED
    BY <1>2, <1>3

\* A change of the phase alone.
LEMMA PhaseChange ==
    ASSUME PanelInv, vCurrent # Nothing, NEW phase,
           vCurrent' = [vCurrent EXCEPT !.phase = phase],
           UNCHANGED <<vAskId, vAsks, vRunning>>
    PROVE  PanelChange
  <1>1. Own(vCurrent) /\ vCurrent = [f \in DraftFields |-> vCurrent[f]]
    BY DEF PanelInv, Own
  <1>. DEFINE draft == [vCurrent EXCEPT !.phase = phase]
  <1>2. /\ draft = [f \in DraftFields |-> draft[f]]
        /\ draft.collision = vCurrent.collision /\ draft.raw = vCurrent.raw
        /\ draft.contract = vCurrent.contract /\ draft.explanation = vCurrent.explanation
    BY <1>1 DEF DraftFields
  <1>. HIDE DEF draft
  <1>3. Own(draft)
    BY <1>1, <1>2 DEF Own
  <1>4. vCurrent' = draft
    BY DEF draft
  <1>. QED
    BY <1>2, <1>3, <1>4, SameCollision

LEMMA KeysPanel ==
    ASSUME PanelInv,
           \/ Send \/ Dismiss \/ Redraft
           \/ \E proposal \in vOutgoing, ok \in BOOLEAN : Sent(proposal, ok)
    PROVE  PanelInv'
  <1>1. CASE Send
    <2>. DEFINE proposal == [key |-> vKeys, collision |-> vCurrent.collision,
                             contract |-> vCurrent.contract]
    <2>1. /\ vCurrent # Nothing
          /\ vCurrent' = [vCurrent EXCEPT !.phase = "sending"]
          /\ vOutgoing' = vOutgoing \cup {proposal}
          /\ UNCHANGED <<vAskId, vAsks, vRunning>>
      BY <1>1 DEF Send, Pressed
    <2>2. PanelChange
      BY <2>1, PhaseChange
    <2>3. vCurrent.contract \subseteq {vCurrent.collision}
      BY <2>1, OwnFacts DEF PanelInv
    <2>. QED
      BY <2>1, <2>2, <2>3 DEF PanelInv, PanelChange, Own, Listens
  <1>2. CASE Dismiss
    <2>1. TakeNext(vQueue, 0) /\ UNCHANGED vOutgoing
      BY <1>2 DEF Dismiss, Advance
    <2>2. PanelChange
      BY <2>1, TakesNext
    <2>. QED
      BY <2>1, <2>2 DEF PanelInv, PanelChange, Own, Listens
  <1>3. CASE Redraft
    <2>. DEFINE c == vCurrent.collision
    <2>1. vCurrent' = Blank(c) /\ Ask(c, vRunning) /\ UNCHANGED vOutgoing
      BY <1>3 DEF Redraft, Explain
    <2>2. Own(Blank(c)) /\ Blank(c).collision = c
      BY BlankFacts
    <2>3. vAsks \in Nat /\ \A r \in vRunning : r.id \in 1 .. vAsks
      BY DEF PanelInv, Listens
    <2>. HIDE DEF c
    <2>4. Listens(Blank(c), vAskId', vAsks', vRunning')
      BY <2>1, <2>2, <2>3, AskListens, OwnFacts
    <2>. QED
      BY <2>1, <2>2, <2>4 DEF PanelInv, Own, Listens
  <1>4. ASSUME NEW proposal \in vOutgoing, NEW ok \in BOOLEAN, Sent(proposal, ok)
        PROVE  PanelInv'
    <2>1. vOutgoing' \subseteq vOutgoing
      BY <1>4 DEF Sent
    <2>2. PanelChange
      <3>1. CASE ok
        BY <1>4, <3>1, TakesNext DEF Sent, Advance
      <3>2. CASE ~ok /\ vCurrent = Nothing
        BY <1>4, <3>2 DEF Sent, PanelInv, PanelChange
      <3>3. CASE ~ok /\ vCurrent # Nothing
        BY <1>4, <3>3, PhaseChange DEF Sent
      <3>. QED
        BY <3>1, <3>2, <3>3
    <2>. QED
      BY <2>1, <2>2 DEF PanelInv, PanelChange, Own, Listens
  <1>. QED
    BY <1>1, <1>2, <1>3, <1>4

LEMMA StepPanel ==
    ASSUME PanelInv, [NextPanel]_panelVars
    PROVE  PanelInv'
  <1>1. ASSUME PanelChange, UNCHANGED vOutgoing
        PROVE  PanelInv'
    BY <1>1 DEF PanelInv, PanelChange, Own, Listens
  <1>2. ASSUME UNCHANGED <<vCurrent, vAskId, vAsks, vRunning>>
        PROVE  PanelChange
    BY <1>2 DEF PanelInv, PanelChange, Own, Listens
  <1>3. CASE StreamConnects \/ StreamFails \/ StreamCloses \/ RetryFires
    BY <1>1, <1>2, <1>3 DEF StreamConnects, StreamFails, StreamCloses, RetryFires, LinkOnly,
       draftVars
  <1>4. ASSUME NEW mode \in {"authority", "peer"}, NEW open \in SUBSET Collisions,
               RoomState(mode, open)
        PROVE  PanelInv'
    BY <1>1, <1>4, Pumps DEF RoomState, Intake
  <1>5. CASE ModelLoads
    BY <1>1, <1>5, Pumps DEF ModelLoads, FromWorker
  <1>6. CASE ModelFails
    BY <1>1, <1>2, <1>6 DEF ModelFails, FromWorker, draftVars
  <1>7. CASE \E request \in vRunning : Delta(request)
    BY <1>1, <1>7, DeltaPanel DEF Delta, FromWorker
  <1>8. CASE \E request \in vRunning, well \in BOOLEAN : Answered(request, well)
    BY <1>1, <1>8, AnsweredPanel DEF Answered, FromWorker
  <1>9. CASE \E code \in {0, 1} : ModelExits(code)
    BY <1>1, <1>9, ModelExitsPanel DEF ModelExits, FromWorker
  <1>10. CASE UNCHANGED panelVars
    BY <1>1, <1>2, <1>10 DEF panelVars, draftVars
  <1>. QED
    BY <1>3, <1>4, <1>5, <1>6, <1>7, <1>8, <1>9, <1>10, KeysPanel DEF NextPanel

LEMMA InitialPanel ==
    ASSUME InitPanel
    PROVE  PanelInv
  BY DEF InitPanel, PanelInv, Listens
-----------------------------------------------------------------------------
(***************************************************************************)
(* The installation.  A command that undoes an installation forgets the    *)
(* record as its last step, and until then every file either holds what    *)
(* was recorded or is still to be put back.                                *)
(***************************************************************************)
Plain == {"copy", "hook", "spawn", "pid", "await", "kill", "gone", "shutdown", "wait"}

\* The steps in the middle of an installation, and all there are.
Middle == {<<n>> : n \in Plain} \cup {<<"merge", f>> : f \in HostFiles}
Steps == Middle \cup {<<"record">>, <<"forget">>} \cup {<<"restore", f>> : f \in Tracked}

Undoing == {"kill", "gone", "restore", "forget"}

Restored(repo, t) == pFiles[FileOf(repo, t)] = pRecord[repo].files[FileOf(repo, t)]

\* What a command may have left to do.
Orderly(repo, todo) ==
    /\ todo \in Seq(Steps)
    /\ todo # <<>> =>
          /\ repo \in Repos
          /\ todo[1][1] = "record" <=> ~Joined(repo)
    /\ \A i \in DOMAIN todo : todo[i][1] = "record" => i = 1
    /\ \A i \in DOMAIN todo : todo[i][1] = "forget" =>
          /\ i = Len(todo)
          /\ \A j \in DOMAIN todo : todo[j][1] \in Undoing
          /\ \A t \in Tracked : Restored(repo, t) \/ \E j \in DOMAIN todo : todo[j] = <<"restore", t>>

Recorded ==
    /\ pRecord = [r \in Repos |-> pRecord[r]]
    /\ \A r \in Repos : Joined(r) =>
          pRecord[r] = [pid |-> pRecord[r].pid, files |-> pRecord[r].files]
    /\ ~pOverlap => \A q, r \in Repos : Joined(q) /\ Joined(r) => q = r

LaptopInv ==
    /\ pFiles = [f \in AllFiles |-> pFiles[f]]
    /\ pBefore = [f \in AllFiles |-> pBefore[f]]
    /\ pCommand = [repo |-> pCommand.repo, todo |-> pCommand.todo]
    /\ Recorded
    /\ Orderly(Repo, Todo)
    /\ LeavesNoTrace

LEMMA StepFacts ==
    /\ \A s \in Middle : /\ s \in Steps
                         /\ s[1] \notin {"record", "forget", "restore"}
    /\ \A s \in Steps : s[1] = "merge" => s[2] \in HostFiles
    /\ \A s \in Steps : s[1] = "restore" => s[2] \in Tracked /\ s = <<"restore", s[2]>>
    /\ <<"record">> \in Steps /\ <<"forget">> \in Steps
    /\ \A t \in Tracked : <<"restore", t>> \in Steps
    /\ \A n \in Plain : <<n>> \in Middle
    /\ \A f \in HostFiles : <<"merge", f>> \in Middle
  <1>1. \A s \in Middle : (\E n \in Plain : s = <<n>>) \/ (\E f \in HostFiles : s = <<"merge", f>>)
    BY DEF Middle
  <1>2. \A s \in Steps : \/ s \in Middle \/ s = <<"record">> \/ s = <<"forget">>
                         \/ \E t \in Tracked : s = <<"restore", t>>
    BY DEF Steps
  <1>3. \A s \in Middle : s \in Steps
    BY DEF Steps
  <1>4. \A s \in Middle : s[1] \in Plain \cup {"merge"}
    BY <1>1
  <1>5. \A s \in Middle : s[1] \notin {"record", "forget", "restore"}
    BY <1>4 DEF Plain
  <1>6. \A s \in Middle : s[1] = "merge" => s[2] \in HostFiles
    BY <1>1 DEF Plain
  <1>7. \A s \in Steps : s[1] = "merge" => s[2] \in HostFiles
    BY <1>2, <1>6
  <1>8. \A s \in Steps : s[1] = "restore" => s[2] \in Tracked /\ s = <<"restore", s[2]>>
    BY <1>2, <1>5
  <1>9. /\ <<"record">> \in Steps /\ <<"forget">> \in Steps
        /\ \A t \in Tracked : <<"restore", t>> \in Steps
        /\ \A n \in Plain : <<n>> \in Middle
        /\ \A f \in HostFiles : <<"merge", f>> \in Middle
    BY DEF Steps, Middle
  <1>. QED
    BY <1>3, <1>5, <1>7, <1>8, <1>9

\* A finite set as a sequence has its elements and no other.
LEMMA SetToSeqFacts ==
    ASSUME NEW S, IsFiniteSet(S)
    PROVE  /\ SetToSeq(S) \in Seq(S)
           /\ \A x \in S : \E i \in 1 .. Len(SetToSeq(S)) : SetToSeq(S)[i] = x
  <1>. DEFINE n == Cardinality(S)
              q == SetToSeq(S)
  <1>1. n \in Nat /\ ExistsBijection(1 .. n, S)
    BY FS_CardinalityType
  <1>2. \E f \in [1 .. n -> S] : IsInjective(f)
    BY <1>1 DEF ExistsBijection, Bijection, Injection
  <1>3. q \in [1 .. n -> S] /\ IsInjective(q)
    BY <1>2 DEF SetToSeq
  <1>. HIDE DEF q
  <1>4. q \in Injection(1 .. n, S)
    BY <1>3 DEF Injection
  <1>5. Cardinality(1 .. n) = n /\ IsFiniteSet(1 .. n)
    BY <1>1, IntervalCard
  <1>6. q \in Surjection(1 .. n, S)
    BY <1>4, <1>5, FS_Injection
  <1>7. \A x \in S : \E i \in 1 .. n : q[i] = x
    BY <1>6 DEF Surjection
  <1>8. q \in Seq(S) /\ Len(q) = n
    BY <1>1, <1>3
  <1>. QED
    BY <1>7, <1>8 DEF q

LEMMA TrackedFinite ==
    /\ IsFiniteSet({<<"restore", f>> : f \in Tracked})
    /\ IsFiniteSet({<<"merge", f>> : f \in HostFiles})
    /\ Shared \in Tracked
  <1>1. IsFiniteSet(HostFiles) /\ Shared \in HostFiles
    BY FilesAssumption
  <1>2. IsFiniteSet(Tracked)
    <2>1. IsFiniteSet(HostFiles \cup {Hook})
      BY <1>1, FS_AddElement
    <2>2. IsFiniteSet((HostFiles \cup {Hook}) \cup {Copy})
      BY <2>1, FS_AddElement
    <2>3. Tracked = (HostFiles \cup {Hook}) \cup {Copy}
      BY DEF Tracked
    <2>. QED
      BY <2>2, <2>3
  <1>3. ASSUME NEW F, IsFiniteSet(F), NEW n
        PROVE  IsFiniteSet({<<n, f>> : f \in F})
    <2>. DEFINE T == {<<n, f>> : f \in F}
                at == [f \in F |-> <<n, f>>]
    <2>1. at \in [F -> T] /\ \A x \in T : \E f \in F : at[f] = x
      OBVIOUS
    <2>2. at \in Surjection(F, T)
      BY <2>1 DEF Surjection
    <2>. HIDE DEF at, T
    <2>3. IsFiniteSet(T)
      BY <1>3, <2>2, FS_Surjection
    <2>. QED
      BY <2>3 DEF T
  <1>4. Shared \in Tracked
    BY <1>1 DEF Tracked
  <1>. QED
    BY <1>1, <1>2, <1>3, <1>4

LEMMA FileFacts ==
    ASSUME NEW r \in Repos
    PROVE  /\ FilesOf(r) \subseteq AllFiles
           /\ \A t \in Tracked : FileOf(r, t) \in FilesOf(r)
           /\ \A f \in FilesOf(r) : \E t \in Tracked : f = FileOf(r, t)
           /\ \A q \in Repos : \A t : <<r, t>> \in FilesOf(q) => <<r, t>> \in FilesOf(r)
  <1>1. FilesOf(r) \subseteq AllFiles
    BY DEF AllFiles
  <1>2. \A t \in Tracked : FileOf(r, t) \in FilesOf(r)
    BY DEF FileOf, FilesOf
  <1>3. ASSUME NEW f \in FilesOf(r)
        PROVE  \E t \in Tracked : f = FileOf(r, t)
    <2>1. CASE f = <<Shared, Shared>>
      BY <2>1, TrackedFinite DEF FileOf
    <2>2. CASE f \in {r} \X Tracked /\ f[2] # Shared
      BY <2>2 DEF FileOf
    <2>. QED
      BY <2>1, <2>2 DEF FilesOf
  <1>4. ASSUME NEW q \in Repos, NEW t, <<r, t>> \in FilesOf(q)
        PROVE  <<r, t>> \in FilesOf(r)
    <2>. DEFINE f == <<r, t>>
    <2>1. CASE f = <<Shared, Shared>>
      BY <2>1 DEF FilesOf
    <2>2. CASE f \in {q} \X Tracked /\ f[2] # Shared
      BY <2>2 DEF FilesOf
    <2>. QED
      BY <1>4, <2>1, <2>2 DEF FilesOf
  <1>. QED
    BY <1>1, <1>2, <1>3, <1>4

\* An installation as far as it has been put together.
Installs(todo) ==
    /\ todo \in Seq(Steps)
    /\ Len(todo) >= 1
    /\ todo[1] = <<"record">>
    /\ \A i \in 2 .. Len(todo) : todo[i] \in Middle

LEMMA Prolonged ==
    ASSUME NEW todo, Installs(todo), NEW more \in Seq(Middle)
    PROVE  Installs(todo \o more)
  <1>1. todo \in Seq(Steps) /\ more \in Seq(Steps)
    <2>1. Middle \subseteq Steps
      BY StepFacts
    <2>. HIDE DEF Middle, Steps
    <2>2. more \in Seq(Steps)
      BY <2>1
    <2>. QED
      BY <2>2 DEF Installs
  <1>. DEFINE new == todo \o more
  <1>2. /\ new \in Seq(Steps)
        /\ Len(new) = Len(todo) + Len(more)
        /\ \A i \in 1 .. Len(todo) + Len(more) :
              new[i] = IF i <= Len(todo) THEN todo[i] ELSE more[i - Len(todo)]
    BY <1>1, ConcatProperties
  <1>. HIDE DEF new
  <1>3. Len(todo) \in Nat /\ Len(more) \in Nat /\ Len(todo) >= 1
    BY <1>1 DEF Installs
  <1>4. new[1] = todo[1]
    BY <1>2, <1>3
  <1>5. ASSUME NEW i \in 2 .. Len(new)
        PROVE  new[i] \in Middle
    <2>1. CASE i <= Len(todo)
      BY <1>2, <1>3, <1>5, <2>1 DEF Installs
    <2>2. CASE i > Len(todo)
      <3>1. i - Len(todo) \in 1 .. Len(more)
        BY <1>2, <1>3, <1>5, <2>2
      <3>2. more[i - Len(todo)] \in Middle
        BY <3>1
      <3>. QED
        BY <1>2, <1>3, <1>5, <2>2, <3>2
    <2>. QED
      BY <1>2, <1>3, <1>5, <2>1, <2>2
  <1>6. Installs(new)
    BY <1>2, <1>3, <1>4, <1>5 DEF Installs
  <1>. QED
    BY <1>6 DEF new

LEMMA CreateOrderly ==
    ASSUME NEW r \in Repos, ~Joined(r)
    PROVE  Orderly(r, Create)
  <1>. DEFINE merges == SetToSeq({<<"merge", f>> : f \in HostFiles})
  <1>1. Installs(<<<<"record">>>>)
    <2>1. <<"record">> \in Steps
      BY StepFacts
    <2>. QED
      BY <2>1 DEF Installs
  <1>2. merges \in Seq(Middle)
    <2>. DEFINE M == {<<"merge", f>> : f \in HostFiles}
    <2>1. M \subseteq Middle /\ IsFiniteSet(M)
      BY TrackedFinite DEF Middle
    <2>2. merges \in Seq(M)
      BY <2>1, SetToSeqFacts
    <2>. HIDE DEF merges, M
    <2>. QED
      BY <2>1, <2>2
  <1>3. /\ <<<<"copy">>, <<"hook">>>> \in Seq(Middle)
        /\ <<<<"spawn">>, <<"pid">>, <<"await">>>> \in Seq(Middle)
    <2>1. /\ <<"copy">> \in Middle /\ <<"hook">> \in Middle
          /\ <<"spawn">> \in Middle /\ <<"pid">> \in Middle /\ <<"await">> \in Middle
      BY StepFacts DEF Plain
    <2>. QED
      BY <2>1
  <1>4. Installs(Create)
    <2>. HIDE DEF merges
    <2>1. Installs(<<<<"record">>>> \o merges)
      BY <1>1, <1>2, Prolonged
    <2>2. Installs((<<<<"record">>>> \o merges) \o <<<<"copy">>, <<"hook">>>>)
      BY <1>3, <2>1, Prolonged
    <2>3. Installs(((<<<<"record">>>> \o merges) \o <<<<"copy">>, <<"hook">>>>)
                      \o <<<<"spawn">>, <<"pid">>, <<"await">>>>)
      BY <1>3, <2>2, Prolonged
    <2>. QED
      BY <2>3 DEF Create, Install, merges
  <1>5. ASSUME NEW todo, Installs(todo)
        PROVE  Orderly(r, todo)
    <2>1. /\ todo \in Seq(Steps) /\ Len(todo) \in Nat /\ Len(todo) >= 1
          /\ DOMAIN todo = 1 .. Len(todo)
          /\ todo[1][1] = "record"
      BY <1>5 DEF Installs
    <2>2. \A i \in DOMAIN todo : i # 1 => todo[i][1] \notin {"record", "forget", "restore"}
      BY <1>5, <2>1, StepFacts DEF Installs
    <2>. QED
      BY <2>1, <2>2 DEF Orderly
  <1>. QED
    BY <1>4, <1>5

\* What undoes an installation, as far as it has been put together.
Undoes(todo) ==
    /\ todo \in Seq(Steps)
    /\ Len(todo) >= 1
    /\ todo[Len(todo)] = <<"forget">>
    /\ \A i \in 1 .. Len(todo) - 1 : todo[i][1] \in Undoing \ {"forget"}
    /\ \A t \in Tracked : \E i \in 1 .. Len(todo) : todo[i] = <<"restore", t>>

LEMMA UninstallUndoes == Undoes(Uninstall)
  <1>. DEFINE R == {<<"restore", f>> : f \in Tracked}
              last == <<<<"forget">>>>
              todo == Restores \o last
  <1>1. /\ Restores \in Seq(R)
        /\ \A x \in R : \E i \in 1 .. Len(Restores) : Restores[i] = x
    BY TrackedFinite, SetToSeqFacts DEF Restores
  <1>2. /\ R \subseteq Steps /\ <<"forget">> \in Steps
        /\ \A x \in R : x[1] = "restore"
    BY StepFacts
  <1>3. \A t \in Tracked : <<"restore", t>> \in R
    OBVIOUS
  <1>. HIDE DEF R
  <1>4. /\ Restores \in Seq(Steps) /\ Len(Restores) \in Nat
        /\ \A i \in 1 .. Len(Restores) : Restores[i][1] = "restore"
    BY <1>1, <1>2
  <1>5. last \in Seq(Steps) /\ Len(last) = 1 /\ last[1] = <<"forget">>
    BY <1>2
  <1>. HIDE DEF last
  <1>6. /\ todo \in Seq(Steps)
        /\ Len(todo) = Len(Restores) + 1
        /\ \A i \in 1 .. Len(Restores) + 1 :
              todo[i] = IF i <= Len(Restores) THEN Restores[i] ELSE last[i - Len(Restores)]
    <2>1. Restores \in Seq(Steps) /\ last \in Seq(Steps)
      BY <1>4, <1>5
    <2>2. /\ todo \in Seq(Steps)
          /\ Len(todo) = Len(Restores) + Len(last)
          /\ \A i \in 1 .. Len(Restores) + Len(last) :
                todo[i] = IF i <= Len(Restores) THEN Restores[i] ELSE last[i - Len(Restores)]
      BY <2>1, ConcatProperties
    <2>. QED
      BY <1>5, <2>2
  <1>. HIDE DEF todo
  <1>7. todo[Len(todo)] = <<"forget">>
    BY <1>4, <1>5, <1>6
  <1>8. \A i \in 1 .. Len(todo) - 1 : todo[i][1] \in Undoing \ {"forget"}
    BY <1>4, <1>6 DEF Undoing
  <1>9. \A t \in Tracked : \E i \in 1 .. Len(todo) : todo[i] = <<"restore", t>>
    <2>. TAKE t \in Tracked
    <2>1. PICK i \in 1 .. Len(Restores) : Restores[i] = <<"restore", t>>
      BY <1>1, <1>3
    <2>2. i \in 1 .. Len(todo) /\ todo[i] = Restores[i]
      BY <1>4, <1>6
    <2>. QED
      BY <2>1, <2>2
  <1>10. Len(todo) >= 1
    BY <1>4, <1>6
  <1>11. todo \in Seq(Steps)
    BY <1>6
  <1>12. Undoes(todo)
    BY <1>7, <1>8, <1>9, <1>10, <1>11, Zenon DEF Undoes
  <1>. QED
    BY <1>12 DEF todo, last, Uninstall

LEMMA KillUndoes == Undoes(Kill \o Uninstall)
  <1>. DEFINE todo == Kill \o Uninstall
  <1>1. /\ Kill \in Seq(Steps) /\ Len(Kill) = 2
        /\ Kill[1][1] = "kill" /\ Kill[2][1] = "gone"
    <2>1. <<"kill">> \in Steps /\ <<"gone">> \in Steps
      BY StepFacts DEF Plain
    <2>. QED
      BY <2>1 DEF Kill
  <1>2. /\ Uninstall \in Seq(Steps) /\ Len(Uninstall) \in Nat /\ Len(Uninstall) >= 1
    BY UninstallUndoes DEF Undoes
  <1>3. /\ todo \in Seq(Steps)
        /\ Len(todo) = 2 + Len(Uninstall)
        /\ \A i \in 1 .. 2 + Len(Uninstall) :
              todo[i] = IF i <= 2 THEN Kill[i] ELSE Uninstall[i - 2]
    <2>1. Kill \in Seq(Steps) /\ Uninstall \in Seq(Steps)
      BY <1>1, <1>2
    <2>2. /\ todo \in Seq(Steps)
          /\ Len(todo) = Len(Kill) + Len(Uninstall)
          /\ \A i \in 1 .. Len(Kill) + Len(Uninstall) :
                todo[i] = IF i <= Len(Kill) THEN Kill[i] ELSE Uninstall[i - Len(Kill)]
      BY <2>1, ConcatProperties
    <2>. QED
      BY <1>1, <2>2
  <1>. HIDE DEF todo
  <1>4. todo[Len(todo)] = <<"forget">>
    BY <1>2, <1>3, UninstallUndoes DEF Undoes
  <1>5. ASSUME NEW i \in 1 .. Len(todo) - 1
        PROVE  todo[i][1] \in Undoing \ {"forget"}
    <2>1. CASE i > 2
      <3>1. i - 2 \in 1 .. Len(Uninstall) - 1 /\ todo[i] = Uninstall[i - 2]
        BY <1>2, <1>3, <1>5, <2>1
      <3>. QED
        BY <3>1, UninstallUndoes DEF Undoes
    <2>2. CASE i \in {1, 2}
      BY <1>1, <1>2, <1>3, <2>2 DEF Undoing
    <2>. QED
      BY <1>2, <1>3, <1>5, <2>1, <2>2
  <1>6. ASSUME NEW t \in Tracked
        PROVE  \E i \in 1 .. Len(todo) : todo[i] = <<"restore", t>>
    <2>1. PICK i \in 1 .. Len(Uninstall) : Uninstall[i] = <<"restore", t>>
      BY UninstallUndoes DEF Undoes
    <2>2. i + 2 \in 1 .. Len(todo) /\ todo[i + 2] = Uninstall[i]
      BY <1>2, <1>3
    <2>. QED
      BY <2>1, <2>2
  <1>7. Len(todo) >= 1
    BY <1>2, <1>3
  <1>8. todo \in Seq(Steps)
    BY <1>3
  <1>9. Undoes(todo)
    BY <1>4, <1>5, <1>6, <1>7, <1>8, Zenon DEF Undoes
  <1>. QED
    BY <1>9 DEF todo

LEMMA UndoOrderly ==
    ASSUME NEW r \in Repos, Joined(r), NEW todo, Undoes(todo)
    PROVE  Orderly(r, todo)
  <1>1. /\ todo \in Seq(Steps) /\ Len(todo) \in Nat /\ Len(todo) >= 1
        /\ DOMAIN todo = 1 .. Len(todo)
        /\ todo[Len(todo)][1] = "forget"
    BY DEF Undoes
  <1>2. \A i \in DOMAIN todo : i # Len(todo) => todo[i][1] \in Undoing \ {"forget"}
    BY <1>1 DEF Undoes
  <1>3. \A i \in DOMAIN todo : todo[i][1] \in Undoing
    BY <1>1, <1>2 DEF Undoing
  <1>4. \A i \in DOMAIN todo : todo[i][1] # "record"
    BY <1>3 DEF Undoing
  <1>5. \A t \in Tracked : \E j \in DOMAIN todo : todo[j] = <<"restore", t>>
    BY <1>1 DEF Undoes
  <1>6. todo[1][1] # "record" /\ 1 \in DOMAIN todo
    BY <1>1, <1>4
  <1>7. \A i \in DOMAIN todo : todo[i][1] = "forget" => i = Len(todo)
    BY <1>2
  <1>. QED
    BY <1>1, <1>3, <1>4, <1>5, <1>6, <1>7, Zenon DEF Orderly

LEMMA OneStepOrderly ==
    ASSUME NEW r \in Repos, Joined(r)
    PROVE  Orderly(r, Leave) /\ Orderly(r, <<<<"wait">>>>)
  <1>1. <<"shutdown">> \in Steps /\ <<"wait">> \in Steps
    BY StepFacts DEF Plain
  <1>2. ASSUME NEW n \in {"shutdown", "wait"}
        PROVE  Orderly(r, <<<<n>>>>)
    BY <1>1, <1>2 DEF Orderly
  <1>. QED
    BY <1>2 DEF Leave

\* The command and the record as a step leaves them.
CommandOrderly ==
    /\ pCommand = [repo |-> pCommand.repo, todo |-> pCommand.todo]
    /\ Orderly(Repo, Todo)

LEMMA RestOrderly ==
    ASSUME pCommand' = Rest
    PROVE  CommandOrderly'
  <1>1. pCommand'.repo = "none" /\ pCommand'.todo = <<>>
    BY DEF Rest
  <1>2. <<>> \in Seq(Steps)
    OBVIOUS
  <1>. QED
    BY <1>1, <1>2 DEF CommandOrderly, Orderly, Repo, Todo, Rest

LEMMA RunsOrderly ==
    ASSUME NEW r, NEW todo, Orderly(r, todo), Runs(r, todo), UNCHANGED <<pFiles, pRecord>>
    PROVE  CommandOrderly'
  <1>1. /\ pCommand'.repo = r /\ pCommand'.todo = todo
        /\ pCommand' = [repo |-> pCommand'.repo, todo |-> pCommand'.todo]
    BY DEF Runs
  <1>. QED
    BY <1>1 DEF CommandOrderly, Orderly, Repo, Todo, Joined, Restored, FileOf

\* Commands that stay as they are, while files and records do too or do not matter.
LEMMA KeepsOrderly ==
    ASSUME CommandOrderly, UNCHANGED <<pCommand, pFiles, pRecord>>
    PROVE  CommandOrderly'
  BY DEF CommandOrderly, Orderly, Repo, Todo, Joined, Restored, FileOf

\* The next step, when a repository that is joined stays so and what was put back stays.
LEMMA ProceedsOrderly ==
    ASSUME CommandOrderly, Todo # <<>>, Proceeds,
           pRecord'[Repo] # NoRecord,
           (\E i \in DOMAIN Todo : Todo[i][1] = "forget") =>
              \A t \in Tracked : Todo[1] = <<"restore", t>> \/ Restored(Repo, t) =>
                 pFiles'[FileOf(Repo, t)] = pRecord'[Repo].files[FileOf(Repo, t)]
    PROVE  CommandOrderly'
  <1>1. CASE Len(Todo) = 1
    BY <1>1, RestOrderly DEF Proceeds, Finishes
  <1>2. CASE Len(Todo) # 1
    <2>. DEFINE r == Repo
                todo == Todo
                new == Tail(todo)
    <2>1. /\ pCommand' = [repo |-> r, todo |-> new]
          /\ pCommand'.repo = r /\ pCommand'.todo = new
      BY <1>2 DEF Proceeds, Runs
    <2>2. /\ todo \in Seq(Steps) /\ todo # <<>> /\ r \in Repos
          /\ \A i \in DOMAIN todo : todo[i][1] = "record" => i = 1
      BY DEF CommandOrderly, Orderly
    <2>3. \A i \in DOMAIN todo : todo[i][1] = "forget" =>
            /\ i = Len(todo)
            /\ \A j \in DOMAIN todo : todo[j][1] \in Undoing
            /\ \A t \in Tracked : Restored(r, t) \/ \E j \in DOMAIN todo : todo[j] = <<"restore", t>>
      BY DEF CommandOrderly, Orderly
    <2>. HIDE DEF r, todo
    <2>10. Len(todo) \in Nat /\ DOMAIN todo = 1 .. Len(todo) /\ Len(todo) > 1
      <3>1. Len(todo) # 1
        BY <1>2 DEF todo
      <3>2. todo \in Seq(Steps) /\ todo # <<>>
        BY <2>2
      <3>3. Len(todo) \in Nat /\ DOMAIN todo = 1 .. Len(todo)
        BY <3>2
      <3>4. Len(todo) # 0
        BY <3>2, EmptySeq
      <3>. QED
        BY <3>1, <3>3, <3>4
    <2>11. new \in Seq(Steps) /\ Len(new) = Len(todo) - 1
      BY <2>2, HeadTailProperties
    <2>4. /\ new \in Seq(Steps) /\ Len(new) = Len(todo) - 1
          /\ DOMAIN new = 1 .. Len(todo) - 1
          /\ Len(todo) \in Nat /\ DOMAIN todo = 1 .. Len(todo) /\ Len(todo) > 1
      BY <2>10, <2>11
    <2>5. \A i \in DOMAIN new : i + 1 \in DOMAIN todo /\ new[i] = todo[i + 1] /\ i \in Nat
      BY <2>2, <2>4, HeadTailProperties DEF todo
    <2>. HIDE DEF new
    <2>6. \A i \in DOMAIN new : new[i][1] # "record"
      BY <2>2, <2>4, <2>5
    <2>7. 1 \in DOMAIN new /\ new # <<>>
      BY <2>4
    <2>8. ASSUME NEW i \in DOMAIN new, new[i][1] = "forget"
          PROVE  /\ i = Len(new)
                 /\ \A j \in DOMAIN new : new[j][1] \in Undoing
                 /\ \A t \in Tracked :
                       \/ pFiles'[FileOf(r, t)] = pRecord'[r].files[FileOf(r, t)]
                       \/ \E j \in DOMAIN new : new[j] = <<"restore", t>>
      <3>1. i + 1 \in DOMAIN todo /\ todo[i + 1][1] = "forget"
        BY <2>5, <2>8
      <3>2. /\ i + 1 = Len(todo)
            /\ \A j \in DOMAIN todo : todo[j][1] \in Undoing
            /\ \A t \in Tracked : Restored(r, t) \/ \E j \in DOMAIN todo : todo[j] = <<"restore", t>>
        BY <2>3, <3>1
      <3>3. \A t \in Tracked : todo[1] = <<"restore", t>> \/ Restored(r, t) =>
               pFiles'[FileOf(r, t)] = pRecord'[r].files[FileOf(r, t)]
        BY <3>1 DEF todo, r
      <3>4. ASSUME NEW t \in Tracked,
                   ~ \E j \in DOMAIN new : new[j] = <<"restore", t>>
            PROVE  pFiles'[FileOf(r, t)] = pRecord'[r].files[FileOf(r, t)]
        <4>1. CASE Restored(r, t)
          BY <3>3, <4>1
        <4>2. CASE \E j \in DOMAIN todo : todo[j] = <<"restore", t>>
          <5>1. PICK j \in DOMAIN todo : todo[j] = <<"restore", t>>
            BY <4>2
          <5>2. CASE j = 1
            BY <3>3, <5>1, <5>2
          <5>3. CASE j # 1
            <6>1. j - 1 \in DOMAIN new /\ j \in Nat
              BY <2>4, <5>3
            <6>2. new[j - 1] = todo[j]
              BY <2>5, <6>1
            <6>. QED
              BY <3>4, <5>1, <6>1, <6>2
          <5>. QED
            BY <5>2, <5>3
        <4>. QED
          BY <3>2, <4>1, <4>2
      <3>5. \A j \in DOMAIN new : new[j][1] \in Undoing
        BY <2>5, <3>2
      <3>6. i = Len(new)
        BY <2>4, <3>2
      <3>. QED
        BY <3>4, <3>5, <3>6
    <2>9. pRecord'[r] # NoRecord
      BY DEF r
    <2>. QED
      BY <2>1, <2>2, <2>4, <2>6, <2>7, <2>8, <2>9
      DEF CommandOrderly, Orderly, Repo, Todo, Joined, Restored, FileOf
  <1>. QED
    BY <1>1, <1>2

\* What holds of the files and the records, whatever the command.
Traceable ==
    /\ pFiles = [f \in AllFiles |-> pFiles[f]]
    /\ pBefore = [f \in AllFiles |-> pBefore[f]]
    /\ Recorded
    /\ LeavesNoTrace

LEMMA TraceStays ==
    ASSUME Traceable, UNCHANGED <<pFiles, pBefore, pRecord, pOverlap>>
    PROVE  Traceable'
  BY DEF Traceable, Recorded, LeavesNoTrace, Joined

\* A write to a file of a joined repository.
LEMMA OwnWrite ==
    ASSUME Traceable, NEW r \in Repos, Joined(r), NEW g, NEW what,
           pFiles' = [pFiles EXCEPT ![g] = what],
           g \in AllFiles => g \in FilesOf(r),
           UNCHANGED <<pBefore, pRecord, pOverlap>>
    PROVE  Traceable'
  <1>1. /\ pFiles' = [f \in AllFiles |-> pFiles'[f]]
        /\ \A f \in AllFiles : f # g => pFiles'[f] = pFiles[f]
    BY DEF Traceable
  <1>2. Recorded'
    BY DEF Traceable, Recorded, Joined
  <1>3. \A q \in Repos : Joined(q)' <=> Joined(q)
    BY DEF Joined
  <1>4. LeavesNoTrace'
    <2>1. ASSUME NEW q \in Repos, NEW f \in AllFiles,
                 f \in FilesOf(q), f[1] = Shared => ~pOverlap,
                 ~Joined(q), \A p \in Repos : f \in FilesOf(p) => ~Joined(p)
          PROVE  pFiles'[f] = pBefore[f]
      <3>1. f # g
        BY <2>1
      <3>2. pFiles[f] = pBefore[f]
        BY <2>1 DEF Traceable, LeavesNoTrace
      <3>. QED
        BY <1>1, <3>1, <3>2
    <2>2. ASSUME NEW q \in Repos, NEW f \in AllFiles,
                 f \in FilesOf(q), f[1] = Shared => ~pOverlap, Joined(q)
          PROVE  pRecord'[q].files[f] = pBefore'[f]
      BY <2>2 DEF Traceable, LeavesNoTrace
    <2>. QED
      BY <1>3, <2>1, <2>2 DEF LeavesNoTrace
  <1>. QED
    BY <1>1, <1>2, <1>4 DEF Traceable

LEMMA AtStepFacts ==
    ASSUME LaptopInv, NEW step, AtStep(step)
    PROVE  /\ Todo # <<>> /\ Repo \in Repos
           /\ 1 \in DOMAIN Todo /\ Head(Todo) = Todo[1] /\ Todo[1] \in Steps
           /\ Todo[1][1] = step
           /\ step # "record" => Joined(Repo)
           /\ step \notin Undoing => \A i \in DOMAIN Todo : Todo[i][1] # "forget"
  <1>1. Todo \in Seq(Steps) /\ Todo # <<>> /\ Head(Todo)[1] = step
    BY DEF LaptopInv, Orderly, AtStep
  <1>. DEFINE todo == Todo
  <1>2. todo \in Seq(Steps) /\ todo # <<>> /\ Head(todo)[1] = step
    BY <1>1
  <1>. HIDE DEF todo
  <1>3. 1 \in DOMAIN todo /\ Head(todo) = todo[1] /\ todo[1] \in Steps
    BY <1>2
  <1>. QED
    BY <1>1, <1>2, <1>3 DEF LaptopInv, Orderly, todo

\* The steps that change the files of the repository they are about.
LEMMA WritesLaptop ==
    ASSUME LaptopInv, Merge \/ CopyHook \/ WriteHook
    PROVE  LaptopInv'
  <1>1. Traceable /\ CommandOrderly
    BY DEF LaptopInv, Traceable, CommandOrderly
  <1>2. PICK step \in {"merge", "copy", "hook"} : AtStep(step)
    BY DEF Merge, CopyHook, WriteHook
  <1>3. /\ Todo # <<>> /\ Repo \in Repos /\ Joined(Repo)
        /\ Head(Todo) = Todo[1] /\ Todo[1] \in Steps /\ Todo[1][1] = step
        /\ \A i \in DOMAIN Todo : Todo[i][1] # "forget"
    BY <1>2, AtStepFacts DEF Undoing
  <1>4. UNCHANGED <<pBefore, pRecord, pOverlap>>
    BY DEF Merge, CopyHook, WriteHook
  <1>5. ASSUME Proceeds
        PROVE  CommandOrderly'
    <2>1. pRecord'[Repo] # NoRecord
      BY <1>3, <1>4 DEF Joined
    <2>. QED
      BY <1>1, <1>3, <1>5, <2>1, ProceedsOrderly
  <1>6. ASSUME NEW t, <<Repo, t>> \in AllFiles
        PROVE  <<Repo, t>> \in FilesOf(Repo)
    <2>1. PICK q \in Repos : <<Repo, t>> \in FilesOf(q)
      BY <1>6 DEF AllFiles
    <2>. QED
      BY <1>3, <2>1, FileFacts
  <1>7. CASE Merge
    <2>. DEFINE g == FileOf(Repo, Head(Todo)[2])
    <2>1. g \in FilesOf(Repo)
      <3>1. Todo[1][1] = "merge"
        BY <1>7, AtStepFacts DEF Merge
      <3>2. Todo[1][2] \in HostFiles
        BY <1>3, <3>1, StepFacts
      <3>3. Head(Todo)[2] \in Tracked
        BY <1>3, <3>2 DEF Tracked
      <3>. QED
        BY <1>3, <3>3, FileFacts
    <2>2. CASE pFiles' = [pFiles EXCEPT ![g] = "ours"] /\ Proceeds
      <3>. HIDE DEF g
      <3>1. Traceable'
        BY <1>1, <1>3, <1>4, <2>1, <2>2, OwnWrite
      <3>. QED
        BY <1>5, <2>2, <3>1 DEF LaptopInv, Traceable, CommandOrderly
    <2>3. CASE Runs(Repo, Uninstall) /\ UNCHANGED pFiles
      <3>1. Traceable'
        BY <1>1, <1>4, <2>3, TraceStays
      <3>2. Orderly(Repo, Uninstall)
        BY <1>3, UninstallUndoes, UndoOrderly
      <3>3. CommandOrderly'
        BY <1>4, <2>3, <3>2, RunsOrderly
      <3>. QED
        BY <3>1, <3>3 DEF LaptopInv, Traceable, CommandOrderly
    <2>. QED
      BY <1>7, <2>2, <2>3 DEF Merge
  <1>8. CASE CopyHook \/ WriteHook
    <2>1. PICK t, what : pFiles' = [pFiles EXCEPT ![<<Repo, t>>] = what]
      <3>1. CASE CopyHook
        BY <3>1 DEF CopyHook
      <3>2. CASE WriteHook
        BY <3>2 DEF WriteHook
      <3>. QED
        BY <1>8, <3>1, <3>2
    <2>2. Proceeds
      BY <1>8 DEF CopyHook, WriteHook
    <2>3. Traceable'
      BY <1>1, <1>3, <1>4, <1>6, <2>1, OwnWrite
    <2>. QED
      BY <1>5, <2>2, <2>3 DEF LaptopInv, Traceable, CommandOrderly
  <1>. QED
    BY <1>7, <1>8

LEMMA RecordLaptop ==
    ASSUME LaptopInv, Record
    PROVE  LaptopInv'
  <1>. DEFINE new == [pid |-> 0, files |-> [f \in FilesOf(Repo) |-> pFiles[f]]]
              here == Repo
  <1>1. Traceable /\ CommandOrderly
    BY DEF LaptopInv, Traceable, CommandOrderly
  <1>2. /\ Todo # <<>> /\ here \in Repos /\ ~Joined(here)
        /\ \A i \in DOMAIN Todo : Todo[i][1] # "forget"
    <2>1. AtStep("record")
      BY DEF Record
    <2>. QED
      BY <2>1, AtStepFacts DEF LaptopInv, Orderly, Undoing
  <1>3. /\ pRecord' = [pRecord EXCEPT ![here] = new]
        /\ pOverlap' = (pOverlap \/ \E r \in Repos : Joined(r))
        /\ Proceeds
        /\ UNCHANGED <<pFiles, pBefore>>
    BY DEF Record, FilesOnly
  <1>4. /\ new # NoRecord /\ new = [pid |-> new.pid, files |-> new.files]
        /\ \A f \in FilesOf(here) : new.files[f] = pFiles[f]
    <2>1. new # NoRecord
      <3>1. DOMAIN new = {"pid", "files"} /\ DOMAIN NoRecord = {"pid"}
        BY DEF NoRecord
      <3>. QED
        BY <3>1
    <2>. QED
      BY <2>1
  <1>5. ~pOverlap' => ~pOverlap /\ \A r \in Repos : ~Joined(r)
    BY <1>3
  <1>. HIDE DEF new, here
  <1>6. /\ pRecord' = [r \in Repos |-> pRecord'[r]]
        /\ \A r \in Repos : pRecord'[r] = IF r = here THEN new ELSE pRecord[r]
    BY <1>1, <1>3 DEF Traceable, Recorded
  <1>7. CommandOrderly'
    <2>1. pRecord'[Repo] # NoRecord
      BY <1>2, <1>4, <1>6 DEF here
    <2>. QED
      BY <1>1, <1>2, <1>3, <2>1, ProceedsOrderly
  <1>8. Recorded'
    <2>1. \A r \in Repos : Joined(r)' =>
             pRecord'[r] = [pid |-> pRecord'[r].pid, files |-> pRecord'[r].files]
      BY <1>1, <1>4, <1>6 DEF Traceable, Recorded, Joined
    <2>2. ~pOverlap' => \A r \in Repos : Joined(r)' => r = here
      BY <1>5, <1>6 DEF Joined
    <2>. QED
      BY <1>6, <2>1, <2>2 DEF Recorded
  <1>9. LeavesNoTrace'
    <2>1. ASSUME NEW f \in FilesOf(here), f[1] = Shared => ~pOverlap'
          PROVE  new.files[f] = pBefore[f]
      <3>1. \A q \in Repos : f \in FilesOf(q) => ~Joined(q)
        <4>1. CASE f[1] = Shared
          BY <1>5, <2>1, <4>1
        <4>2. CASE f[1] # Shared
          <5>1. f \in {here} \X Tracked
            BY <2>1, <4>2 DEF FilesOf
          <5>2. \A q \in Repos : f \in FilesOf(q) => f \in {q} \X Tracked
            BY <4>2 DEF FilesOf
          <5>3. \A q \in Repos : f \in FilesOf(q) => q = here
            BY <5>1, <5>2
          <5>. QED
            BY <1>2, <5>3
        <4>. QED
          BY <4>1, <4>2
      <3>2. f \in AllFiles /\ (f[1] = Shared => ~pOverlap)
        BY <1>2, <1>5, <2>1, FileFacts
      <3>3. pFiles[f] = pBefore[f]
        BY <1>1, <1>2, <3>1, <3>2 DEF Traceable, LeavesNoTrace
      <3>. QED
        BY <1>4, <3>3
    <2>2. ASSUME NEW r \in Repos, NEW f \in AllFiles, f \in FilesOf(r),
                 f[1] = Shared => ~pOverlap', pRecord'[r] # NoRecord
          PROVE  pRecord'[r].files[f] = pBefore'[f]
      <3>1. CASE r = here
        BY <1>3, <1>6, <2>1, <2>2, <3>1
      <3>2. CASE r # here
        BY <1>1, <1>3, <1>5, <1>6, <2>2, <3>2 DEF Traceable, LeavesNoTrace, Joined
      <3>. QED
        BY <3>1, <3>2
    <2>3. ASSUME NEW r \in Repos, NEW f \in AllFiles, f \in FilesOf(r),
                 f[1] = Shared => ~pOverlap', pRecord'[r] = NoRecord,
                 \A q \in Repos : f \in FilesOf(q) => pRecord'[q] = NoRecord
          PROVE  pFiles'[f] = pBefore'[f]
      <3>1. r # here
        BY <1>4, <1>6, <2>3
      <3>2. \A q \in Repos : f \in FilesOf(q) => ~Joined(q)
        BY <1>2, <1>6, <2>3 DEF Joined
      <3>. QED
        BY <1>1, <1>3, <1>5, <2>3, <3>1, <3>2 DEF Traceable, LeavesNoTrace
    <2>. QED
      BY <2>2, <2>3 DEF LeavesNoTrace, Joined
  <1>. QED
    BY <1>1, <1>3, <1>7, <1>8, <1>9 DEF LaptopInv, Traceable, CommandOrderly

LEMMA RestoreLaptop ==
    ASSUME LaptopInv, Restore
    PROVE  LaptopInv'
  <1>1. Traceable /\ CommandOrderly
    BY DEF LaptopInv, Traceable, CommandOrderly
  <1>2. /\ Todo # <<>> /\ Repo \in Repos /\ Joined(Repo)
        /\ Head(Todo) = Todo[1] /\ Todo[1] \in Steps /\ Todo[1][1] = "restore"
    BY AtStepFacts DEF Restore
  <1>. DEFINE t1 == Todo[1][2]
              g == FileOf(Repo, t1)
  <1>3. t1 \in Tracked /\ g \in FilesOf(Repo) /\ g \in AllFiles
    BY <1>2, StepFacts, FileFacts
  <1>4. /\ pFiles' = [pFiles EXCEPT ![g] = pRecord[Repo].files[g]]
        /\ Proceeds
        /\ UNCHANGED <<pBefore, pOverlap, pRecord>>
    BY <1>2 DEF Restore
  <1>5. Traceable'
    BY <1>1, <1>2, <1>3, <1>4, OwnWrite
  <1>6. ASSUME NEW t \in Tracked, Todo[1] = <<"restore", t>> \/ Restored(Repo, t)
        PROVE  pFiles'[FileOf(Repo, t)] = pRecord'[Repo].files[FileOf(Repo, t)]
    <2>1. FileOf(Repo, t) \in AllFiles
      BY <1>2, FileFacts
    <2>2. \A f \in AllFiles : pFiles'[f] = IF f = g THEN pRecord[Repo].files[g] ELSE pFiles[f]
      BY <1>1, <1>4 DEF Traceable
    <2>3. CASE Todo[1] = <<"restore", t>>
      BY <1>3, <1>4, <2>2, <2>3
    <2>4. CASE Restored(Repo, t)
      BY <1>4, <2>1, <2>2, <2>4 DEF Restored
    <2>. QED
      BY <1>6, <2>3, <2>4
  <1>7. CommandOrderly'
    <2>1. pRecord'[Repo] # NoRecord
      BY <1>2, <1>4 DEF Joined
    <2>. QED
      BY <1>1, <1>2, <1>4, <1>6, <2>1, ProceedsOrderly
  <1>. QED
    BY <1>5, <1>7 DEF LaptopInv, Traceable, CommandOrderly

LEMMA ForgetLaptop ==
    ASSUME LaptopInv, Forget
    PROVE  LaptopInv'
  <1>. DEFINE here == Repo
              todo == Todo
  <1>1. Traceable
    BY DEF LaptopInv, Traceable
  <1>2. /\ 1 \in DOMAIN todo /\ here \in Repos /\ Joined(here)
        /\ todo[1][1] = "forget"
    BY AtStepFacts DEF Forget
  <1>3. /\ 1 = Len(todo)
        /\ \A t \in Tracked : Restored(here, t) \/ \E j \in DOMAIN todo : todo[j] = <<"restore", t>>
    BY <1>2 DEF LaptopInv, Orderly
  <1>4. todo \in Seq(Steps)
    BY DEF LaptopInv, Orderly
  <1>5. /\ pRecord' = [pRecord EXCEPT ![here] = NoRecord]
        /\ pCommand' = Rest
        /\ UNCHANGED <<pFiles, pBefore, pOverlap>>
    BY <1>3 DEF Forget, Proceeds, Finishes, fileVars
  <1>. HIDE DEF here, todo
  <1>6. \A t \in Tracked : Restored(here, t)
    <2>1. \A j \in DOMAIN todo : j = 1
      BY <1>3, <1>4
    <2>. QED
      BY <1>2, <1>3, <2>1
  <1>7. \A f \in FilesOf(here) : pFiles[f] = pRecord[here].files[f]
    BY <1>2, <1>6, FileFacts DEF Restored
  <1>8. /\ pRecord' = [r \in Repos |-> pRecord'[r]]
        /\ \A r \in Repos : pRecord'[r] = IF r = here THEN NoRecord ELSE pRecord[r]
    BY <1>1, <1>5 DEF Traceable, Recorded
  <1>9. Recorded'
    BY <1>1, <1>5, <1>8 DEF Traceable, Recorded, Joined
  <1>10. LeavesNoTrace'
    <2>1. ASSUME NEW f \in FilesOf(here), f[1] = Shared => ~pOverlap
          PROVE  pFiles[f] = pBefore[f]
      <3>1. pRecord[here].files[f] = pBefore[f]
        BY <1>1, <1>2, <2>1, FileFacts DEF Traceable, LeavesNoTrace
      <3>. QED
        BY <1>7, <3>1
    <2>2. ASSUME NEW r \in Repos, NEW f \in AllFiles, f \in FilesOf(r),
                 f[1] = Shared => ~pOverlap, pRecord'[r] # NoRecord
          PROVE  pRecord'[r].files[f] = pBefore[f]
      BY <1>1, <1>8, <2>2 DEF Traceable, LeavesNoTrace, Joined
    <2>3. ASSUME NEW r \in Repos, NEW f \in AllFiles, f \in FilesOf(r),
                 f[1] = Shared => ~pOverlap, pRecord'[r] = NoRecord,
                 \A q \in Repos : f \in FilesOf(q) => pRecord'[q] = NoRecord
          PROVE  pFiles[f] = pBefore[f]
      <3>1. CASE f \in FilesOf(here)
        BY <2>1, <2>3, <3>1
      <3>2. CASE f \notin FilesOf(here)
        <4>1. r # here /\ ~Joined(r)
          BY <1>8, <2>3, <3>2 DEF Joined
        <4>2. \A q \in Repos : f \in FilesOf(q) => ~Joined(q)
          BY <1>8, <2>3, <3>2 DEF Joined
        <4>. QED
          BY <1>1, <2>3, <4>1, <4>2 DEF Traceable, LeavesNoTrace
      <3>. QED
        BY <3>1, <3>2
    <2>. QED
      BY <1>5, <2>2, <2>3 DEF LeavesNoTrace, Joined
  <1>11. CommandOrderly'
    BY <1>5, RestOrderly
  <1>. QED
    BY <1>1, <1>5, <1>9, <1>10, <1>11 DEF LaptopInv, Traceable, CommandOrderly

\* A step that leaves files and records alone, once the command is in order.
LEMMA ProcessLaptop ==
    ASSUME LaptopInv, CommandOrderly',
           UNCHANGED <<pFiles, pBefore, pRecord, pOverlap>>
    PROVE  LaptopInv'
  <1>1. Traceable
    BY DEF LaptopInv, Traceable
  <1>2. Traceable'
    BY <1>1, TraceStays
  <1>. QED
    BY <1>2 DEF LaptopInv, Traceable, CommandOrderly

\* The steps of a command that only move on.
LEMMA MovesOnLaptop ==
    ASSUME LaptopInv, Spawn \/ KillDaemon \/ Gone
    PROVE  LaptopInv'
  <1>1. CommandOrderly
    BY DEF LaptopInv, CommandOrderly
  <1>2. UNCHANGED <<pFiles, pBefore, pRecord, pOverlap>> /\ Proceeds
    BY DEF Spawn, KillDaemon, Gone, fileVars
  <1>3. PICK step \in {"spawn", "kill", "gone"} : AtStep(step)
    BY DEF Spawn, KillDaemon, Gone
  <1>4. /\ Todo # <<>> /\ Repo \in Repos /\ Joined(Repo)
        /\ Todo[1][1] = step
    BY <1>3, AtStepFacts
  <1>5. pRecord'[Repo] # NoRecord
    BY <1>2, <1>4 DEF Joined
  <1>6. ASSUME NEW t \in Tracked, Todo[1] = <<"restore", t>> \/ Restored(Repo, t)
        PROVE  pFiles'[FileOf(Repo, t)] = pRecord'[Repo].files[FileOf(Repo, t)]
    <2>1. Todo[1] # <<"restore", t>>
      BY <1>4
    <2>. QED
      BY <1>2, <1>6, <2>1 DEF Restored
  <1>7. CommandOrderly'
    BY <1>1, <1>2, <1>4, <1>5, <1>6, ProceedsOrderly
  <1>. QED
    BY <1>2, <1>7, ProcessLaptop

\* The steps after which a command stops, or starts to undo.
LEMMA TurnsBackLaptop ==
    ASSUME LaptopInv, Await \/ Shutdown \/ Wait
    PROVE  LaptopInv'
  <1>1. UNCHANGED <<pFiles, pBefore, pRecord, pOverlap>>
    BY DEF Await, Shutdown, Wait, fileVars
  <1>2. PICK step \in {"await", "shutdown", "wait"} : AtStep(step)
    BY DEF Await, Shutdown, Wait
  <1>3. Repo \in Repos /\ Joined(Repo)
    BY <1>2, AtStepFacts
  <1>4. PICK todo \in {Uninstall, Kill \o Uninstall, <<<<"wait">>>>} :
           Finishes \/ Runs(Repo, todo)
    BY DEF Await, Shutdown, Wait
  <1>5. Orderly(Repo, todo)
    BY <1>3, UninstallUndoes, KillUndoes, UndoOrderly, OneStepOrderly
  <1>6. CommandOrderly'
    <2>1. CASE Finishes
      BY <2>1, RestOrderly DEF Finishes
    <2>2. CASE Runs(Repo, todo)
      BY <1>1, <1>5, <2>2, RunsOrderly
    <2>. QED
      BY <1>4, <2>1, <2>2
  <1>. QED
    BY <1>1, <1>6, ProcessLaptop

LEMMA StartsLaptop ==
    ASSUME LaptopInv, NEW r \in Repos, StartCreate(r) \/ StartLeave(r)
    PROVE  LaptopInv'
  <1>1. UNCHANGED <<pFiles, pBefore, pRecord, pOverlap>>
    BY DEF StartCreate, StartLeave, fileVars
  <1>2. PICK todo : Runs(r, todo) /\ Orderly(r, todo)
    <2>1. CASE StartCreate(r)
      BY <2>1, CreateOrderly DEF StartCreate
    <2>2. CASE StartLeave(r)
      BY <2>2, OneStepOrderly DEF StartLeave
    <2>. QED
      BY <2>1, <2>2
  <1>3. CommandOrderly'
    BY <1>1, <1>2, RunsOrderly
  <1>. QED
    BY <1>1, <1>3, ProcessLaptop

\* The record learns the daemon's process number; what it holds of files stays.
LEMMA PidLaptop ==
    ASSUME LaptopInv, WritePid
    PROVE  LaptopInv'
  <1>. DEFINE here == Repo
              old == pRecord[here]
              new == [pid |-> Len(pDaemons), files |-> old.files]
  <1>1. Traceable /\ CommandOrderly
    BY DEF LaptopInv, Traceable, CommandOrderly
  <1>2. /\ Todo # <<>> /\ here \in Repos /\ Joined(here)
        /\ \A i \in DOMAIN Todo : Todo[i][1] # "forget"
    BY AtStepFacts DEF WritePid, Undoing
  <1>3. /\ pRecord' = [pRecord EXCEPT ![here].pid = Len(pDaemons)]
        /\ Proceeds
        /\ UNCHANGED <<pFiles, pBefore, pOverlap>>
    BY DEF WritePid, fileVars
  <1>4. old = [pid |-> old.pid, files |-> old.files]
    BY <1>1, <1>2 DEF Traceable, Recorded
  <1>5. pRecord' = [pRecord EXCEPT ![here] = [old EXCEPT !.pid = Len(pDaemons)]]
    BY <1>3
  <1>6. [old EXCEPT !.pid = Len(pDaemons)] = new
    BY <1>4
  <1>7. new # NoRecord /\ new = [pid |-> new.pid, files |-> new.files] /\ new.files = old.files
    <2>1. DOMAIN new = {"pid", "files"} /\ DOMAIN NoRecord = {"pid"}
      BY DEF NoRecord
    <2>. QED
      BY <2>1
  <1>. HIDE DEF new, old, here
  <1>8. /\ pRecord' = [r \in Repos |-> pRecord'[r]]
        /\ \A r \in Repos : pRecord'[r] = IF r = here THEN new ELSE pRecord[r]
    BY <1>1, <1>5, <1>6 DEF Traceable, Recorded
  <1>9. \A r \in Repos : Joined(r)' <=> Joined(r)
    BY <1>2, <1>7, <1>8 DEF Joined
  <1>10. \A r \in Repos : Joined(r) => pRecord'[r].files = pRecord[r].files
    BY <1>7, <1>8 DEF old
  <1>11. Recorded'
    <2>1. \A r \in Repos : Joined(r) =>
             pRecord'[r] = [pid |-> pRecord'[r].pid, files |-> pRecord'[r].files]
      BY <1>1, <1>7, <1>8 DEF Traceable, Recorded
    <2>. QED
      BY <1>1, <1>3, <1>8, <1>9, <2>1 DEF Traceable, Recorded
  <1>12. LeavesNoTrace'
    BY <1>1, <1>3, <1>9, <1>10 DEF Traceable, LeavesNoTrace
  <1>13. CommandOrderly'
    <2>1. pRecord'[Repo] # NoRecord
      BY <1>2, <1>9 DEF here, Joined
    <2>. QED
      BY <1>1, <1>2, <1>3, <2>1, ProceedsOrderly
  <1>. QED
    BY <1>1, <1>3, <1>11, <1>12, <1>13 DEF LaptopInv, Traceable, CommandOrderly

\* The host writes to the file all repositories share; with nobody joined that is
\* how the file is without Agentigram.
LEMMA HostLaptop ==
    ASSUME LaptopInv, HostWrites
    PROVE  LaptopInv'
  <1>. DEFINE g == <<Shared, Shared>>
  <1>1. Traceable
    BY DEF LaptopInv, Traceable
  <1>2. /\ pFiles' = [pFiles EXCEPT ![g] = "edited"]
        /\ pBefore' = IF \E r \in Repos : Joined(r) THEN pBefore
                      ELSE [pBefore EXCEPT ![g] = "edited"]
        /\ pCommand' = Rest
        /\ UNCHANGED <<pRecord, pOverlap>>
    BY DEF HostWrites, FileOf
  <1>. HIDE DEF g
  <1>3. CommandOrderly'
    BY <1>2, RestOrderly
  <1>4. Recorded'
    BY <1>1, <1>2 DEF Traceable, Recorded, Joined
  <1>5. /\ pFiles' = [f \in AllFiles |-> pFiles'[f]]
        /\ \A f \in AllFiles : pFiles'[f] = IF f = g THEN "edited" ELSE pFiles[f]
    BY <1>1, <1>2 DEF Traceable
  <1>6. CASE \E r \in Repos : Joined(r)
    <2>1. PICK p \in Repos : Joined(p)
      BY <1>6
    <2>2. pBefore' = pBefore
      BY <1>2, <1>6
    <2>3. g \in FilesOf(p)
      BY DEF FilesOf, g
    <2>4. ASSUME NEW r \in Repos, NEW f \in AllFiles, f \in FilesOf(r),
                 f[1] = Shared => ~pOverlap, ~Joined(r),
                 \A q \in Repos : f \in FilesOf(q) => ~Joined(q)
          PROVE  pFiles'[f] = pBefore[f]
      <3>1. f # g
        BY <2>1, <2>3, <2>4
      <3>. QED
        BY <1>1, <1>5, <2>4, <3>1 DEF Traceable, LeavesNoTrace
    <2>5. LeavesNoTrace'
      BY <1>1, <1>2, <2>2, <2>4 DEF Traceable, LeavesNoTrace, Joined
    <2>. QED
      BY <1>1, <1>3, <1>4, <1>5, <2>2, <2>5 DEF LaptopInv, Traceable, CommandOrderly
  <1>7. CASE ~ \E r \in Repos : Joined(r)
    <2>1. pBefore' = [pBefore EXCEPT ![g] = "edited"]
      BY <1>2, <1>7
    <2>2. /\ pBefore' = [f \in AllFiles |-> pBefore'[f]]
          /\ \A f \in AllFiles : pBefore'[f] = IF f = g THEN "edited" ELSE pBefore[f]
      BY <1>1, <2>1 DEF Traceable
    <2>3. LeavesNoTrace'
      BY <1>1, <1>2, <1>5, <1>7, <2>2 DEF Traceable, LeavesNoTrace, Joined
    <2>. QED
      BY <1>3, <1>4, <1>5, <2>2, <2>3 DEF LaptopInv, Traceable, CommandOrderly
  <1>. QED
    BY <1>6, <1>7

LEMMA StepLaptop ==
    ASSUME LaptopInv, [NextLaptop]_laptopVars
    PROVE  LaptopInv'
  <1>1. ASSUME UNCHANGED <<fileVars, pRecord, pCommand>>
        PROVE  LaptopInv'
    <2>1. UNCHANGED <<pFiles, pBefore, pRecord, pOverlap>>
      BY <1>1 DEF fileVars
    <2>2. CommandOrderly'
      BY <1>1, <2>1, KeepsOrderly DEF LaptopInv, CommandOrderly
    <2>. QED
      BY <2>1, <2>2, ProcessLaptop
  <1>2. CASE CommandDies
    <2>1. UNCHANGED <<pFiles, pBefore, pRecord, pOverlap>>
      BY <1>2 DEF CommandDies, fileVars
    <2>2. CommandOrderly'
      BY <1>2, RestOrderly DEF CommandDies, Finishes
    <2>. QED
      BY <2>1, <2>2, ProcessLaptop
  <1>3. CASE \E r \in Repos : StartCreate(r) \/ StartLeave(r)
    BY <1>3, StartsLaptop
  <1>4. CASE \E r \in Repos : RunDaemon(r) \/ Subscribe(r)
    BY <1>1, <1>4 DEF RunDaemon, Subscribe
  <1>5. CASE Record \/ Merge \/ CopyHook \/ WriteHook \/ Restore \/ Forget
    BY <1>5, RecordLaptop, WritesLaptop, RestoreLaptop, ForgetLaptop
  <1>6. CASE Spawn \/ WritePid \/ Await \/ KillDaemon \/ Gone \/ Shutdown \/ Wait
    BY <1>6, MovesOnLaptop, PidLaptop, TurnsBackLaptop
  <1>7. CASE \E d \in DOMAIN pDaemons : DaemonBoots(d) \/ DaemonListens(d) \/ DaemonCloses(d)
                                        \/ DaemonExits(d) \/ DaemonDies(d)
    BY <1>1, <1>7 DEF DaemonBoots, DaemonListens, DaemonCloses, DaemonExits, DaemonDies
  <1>8. CASE ReopenWindow \/ UNCHANGED laptopVars
    BY <1>1, <1>8 DEF ReopenWindow, laptopVars
  <1>9. CASE HostWrites
    BY <1>9, HostLaptop
  <1>. QED
    BY <1>2, <1>3, <1>4, <1>5, <1>6, <1>7, <1>8, <1>9 DEF NextLaptop

LEMMA InitialLaptop ==
    ASSUME InitLaptop
    PROVE  LaptopInv
  <1>1. /\ pFiles = [f \in AllFiles |-> pFiles[f]]
        /\ pBefore = pFiles
        /\ pRecord = [r \in Repos |-> NoRecord]
        /\ pCommand = Rest
    BY DEF InitLaptop
  <1>2. \A r \in Repos : ~Joined(r)
    BY <1>1 DEF Joined
  <1>3. Recorded /\ LeavesNoTrace
    BY <1>1, <1>2 DEF Recorded, LeavesNoTrace
  <1>4. /\ pCommand = [repo |-> Repo, todo |-> Todo]
        /\ Todo = <<>>
    BY <1>1 DEF Rest, Repo, Todo
  <1>5. Orderly(Repo, Todo)
    <2>1. <<>> \in Seq(Steps)
      OBVIOUS
    <2>. QED
      BY <1>4, <2>1 DEF Orderly
  <1>. QED
    BY <1>1, <1>3, <1>4, <1>5 DEF LaptopInv, Repo, Todo
-----------------------------------------------------------------------------
(***************************************************************************)
(* The programs side by side: a step is one program's, and the others rest.*)
(***************************************************************************)
ProgramInv == LeagueInv /\ MergeInv /\ HooksInv /\ PanelInv /\ LaptopInv

LEMMA OneProgramSteps ==
    ASSUME [Next]_vars
    PROVE  /\ [NextPanel]_panelVars
           /\ [NextLaptop]_laptopVars
           /\ [NextHooks]_hookVars
           /\ [NextMerge]_mergeVars
           /\ [NextLeague]_leagueVars
  BY DEF Next, vars

\* What each program's properties rest on holds of all of them, for any lines, sessions,
\* repositories, hosts, requests and markets (everything in LaptopPrograms).
THEOREM ProgramInvariance == Spec => []ProgramInv
  <1>1. ASSUME Init
        PROVE  ProgramInv
    BY <1>1, InitialBook, InitialRequests, InitialHooks, InitialPanel, InitialLaptop
    DEF Init, ProgramInv
  <1>2. ASSUME ProgramInv, [Next]_vars
        PROVE  ProgramInv'
    <2>1. LeagueInv' /\ MergeInv' /\ HooksInv' /\ PanelInv' /\ LaptopInv'
      BY <1>2, OneProgramSteps, StepLeague, StepMerge, StepHooks, StepPanel, StepLaptop
      DEF ProgramInv
    <2>. QED
      BY <2>1 DEF ProgramInv
  <1>. QED
    BY <1>1, <1>2, PTL DEF Spec

\* A forecast is the prices of a market that cannot be traded in any more, and a market
\* an authoritative result has settled scores exactly its traders, whatever the markets,
\* members and prices (index.ts closeLeagueMarket, settleMarket, applyVerificationEvent).
THEOREM LeagueScoresOnClosingPrices == Spec => []ForecastsAreClosingPrices
  <1>1. ProgramInv => ForecastsAreClosingPrices
    BY LeagueScores DEF ProgramInv
  <1>. QED
    BY <1>1, ProgramInvariance, PTL

\* A merge request answered with a result has left no directory, and the result names
\* the stages that did not run to their end, but for those whose command never started
\* or was killed from outside (index.ts runSpeculativeMerge).
THEOREM MergeAnswersAccount == Spec => []AnswersAccountForAll
  <1>1. ProgramInv => AnswersAccountForAll
    <2>1. ASSUME MergeInv, NEW r \in DOMAIN Requests, At(r, "answered"), mAnswer[r] # Thrown
          PROVE  /\ r \notin mDir
                 /\ Accounts(r, mAnswer[r], mDone[r], mBroken[r])
      BY <2>1 DEF MergeInv, Sound, Swept, Decided, At
    <2>. QED
      BY <2>1 DEF ProgramInv, AnswersAccountForAll, Accounts
  <1>. QED
    BY <1>1, ProgramInvariance, PTL

\* A call whose edits its input names has not run on the word of a hook that could
\* not ask the daemon (fail-closed.ts).
THEOREM HooksFailClosed == Spec => []FailsClosed
  <1>1. ProgramInv => FailsClosed
    BY DEF ProgramInv, HooksInv
  <1>. QED
    BY <1>1, ProgramInvariance, PTL

\* Of every change a tool makes the room is told by the hook or the watcher, or still
\* will be, unless both are out of it (shell.ts, watcher.ts, ipc.ts).
THEOREM ChangesAreTold == Spec => []NoSilentWrite
  <1>1. ProgramInv => NoSilentWrite
    BY NobodyLeft DEF ProgramInv
  <1>. QED
    BY <1>1, ProgramInvariance, PTL

\* What is on the panel, and what is sent from it, is about its own collision, however
\* late the model's answers come (app.js askId).
THEOREM PanelShowsItsOwn == Spec => []DraftsAreOwn
  <1>1. ProgramInv => DraftsAreOwn
    BY DEF ProgramInv, PanelInv, Own, DraftsAreOwn
  <1>. QED
    BY <1>1, ProgramInvariance, PTL

\* Wherever a command is killed, a repository without a record is as it was before
\* Agentigram came, and one with a record can be put back to that (install.ts).
THEOREM InstallationsLeaveNoTrace == Spec => []LeavesNoTrace
  <1>1. ProgramInv => LeavesNoTrace
    BY DEF ProgramInv, LaptopInv
  <1>. QED
    BY <1>1, ProgramInvariance, PTL
=============================================================================
