------------------------------ MODULE Payloads ------------------------------
(***************************************************************************)
(* What the bot makes of the answers of its providers: new tokens and      *)
(* pools (discovery/), pairs and trades (market_data/), mint accounts and  *)
(* holders (token_analysis/solana_rpc.py) and quotes (quotes/jupiter.py).  *)
(*                                                                         *)
(* An answer is a record of the fields that are read, None where a field   *)
(* is missing or has the wrong type; None also stands for an answer that   *)
(* is dropped as a whole.  Times are set on arrival.                       *)
(***************************************************************************)
EXTENDS Tracker

CONSTANTS
    PriceUnit,     \* units of price in one SOL per token
    PumpReserve,   \* PUMP_INITIAL_VIRTUAL_SOL
    SolUsd         \* FxProvider.sol_usd_cached(), or None

Known(answers) == answers \ {None}

----------------------------------------------------------------------------
(* Discovery *)

KnownQuotes == {"SOL", "USDC", "USDT"}

TokenInfo(mint, created, decimals) == [mint |-> mint, created |-> created, decimals |-> decimals]

\* GeckoTerminal lists some pools with SOL or a dollar as their base: the token is the other
\* side of these.
ParsePool(item) ==
    LET turned == item.base \in KnownQuotes /\ item.quote \notin KnownQuotes \cup {None}
    IN  IF item.base = None THEN None
        ELSE TokenInfo(IF turned THEN item.quote ELSE item.base, item.created, None)

\* PumpPortal announces a token when it is created; its tokens have six decimals.
ParseNewToken(msg, at) ==
    IF msg.type # "create" \/ msg.mint = None THEN None ELSE TokenInfo(msg.mint, at, 6)

----------------------------------------------------------------------------
(* Market data *)

\* MarketSnapshot: nothing but its source and time.
Unreported(source) ==
    [at |-> 0, source |-> source, price |-> None, liquidity |-> None, volume |-> None,
     buys |-> None, sells |-> None, traders |-> None, holders |-> None, top10 |-> None,
     largest |-> None, spread |-> None, usdPerSol |-> None]

ParsePair(pair) ==
    IF pair.chain # "solana" \/ pair.base = None THEN None
    ELSE [token |-> TokenInfo(pair.base, pair.created, None),
          snap |-> [Unreported("dexscreener") EXCEPT
                      !.price = pair.price, !.liquidity = pair.liquidity,
                      !.volume = pair.volume, !.buys = pair.buys, !.sells = pair.sells,
                      !.usdPerSol = pair.usdPerSol]]

\* best_pairs: of a token's pairs the first with the deepest liquidity.
BestPair(pairs, mint) ==
    LET views == [i \in DOMAIN pairs |-> ParsePair(pairs[i])]
        own == {i \in DOMAIN pairs : views[i] # None /\ views[i].token.mint = mint}
        depth(i) == OrZero(views[i].snap.liquidity)
        deepest == {i \in own : \A j \in own : depth(j) <= depth(i)}
    IN  IF own = {} THEN None ELSE views[Min(deepest)].snap

\* A trade says what is in the bonding curve, or at least what was paid.
ParseTrade(msg) ==
    LET curve == msg.vSol # None /\ msg.vTokens # None /\ OrZero(msg.vTokens) > 0
    IN  IF \/ msg.type \notin {"buy", "sell"} \/ msg.mint = None
           \/ msg.sol = None \/ msg.tokens = None \/ OrZero(msg.tokens) <= 0
        THEN None
        ELSE [at |-> 0, sig |-> msg.sig, trader |-> msg.trader, buy |-> msg.type = "buy",
              sol |-> msg.sol, reserve |-> msg.vSol,
              price |-> IF curve THEN (msg.vSol * PriceUnit) \div msg.vTokens
                        ELSE IF msg.sol > 0 THEN (msg.sol * PriceUnit) \div msg.tokens
                        ELSE None]

\* PumpPortalMarketData._on_trade: the snapshot a trade stands for.
Streamed(trade) ==
    LET real == IF trade.reserve = None THEN None ELSE Larger(0, trade.reserve - PumpReserve)
    IN  [Unreported("pumpportal") EXCEPT
            !.at = trade.at, !.price = trade.price, !.usdPerSol = SolUsd,
            !.liquidity = IF real = None \/ SolUsd = None THEN None ELSE real * 2 * SolUsd]

----------------------------------------------------------------------------
(* The chain *)

\* A mint account, with the last value of each extension that is looked at.
ParseMintAccount(account) ==
    IF account.type # "mint" \/ account.decimals = None \/ account.supply = None THEN None
    ELSE [mint |-> account.mintAuthority # None, freeze |-> account.freezeAuthority # None,
          feeBps |-> account.extensions.transferFee,
          hook |-> account.extensions.transferHook # None,
          nonTransferable |-> account.extensions.nonTransferable,
          delegate |-> account.extensions.permanentDelegate # None,
          supply |-> account.supply, decimals |-> account.decimals]

\* The largest token accounts, largest first.  A pool is not a holder.
ParseLargestAccounts(accounts, supply, pools) ==
    LET known == SelectSeq(accounts, LAMBDA a : a.amount # None /\ a.address # None)
        holders == SelectSeq(known, LAMBDA a : a.address \notin pools)
        first10 == SubSeq(holders, 1, Smaller(10, Len(holders)))
        sum == FoldSeq(LAMBDA a, n : a.amount + n, 0, first10)
        Part(n) == Smaller(100, Percent(n, supply))
    IN  IF known = <<>> \/ supply <= 0 THEN None
        ELSE [count |-> None, top10 |-> Part(sum),
              largest |-> IF holders = <<>> THEN 0 ELSE Part(holders[1].amount)]

----------------------------------------------------------------------------
(* Quotes *)

\* Jupiter reports a price impact as a fraction, here in hundredths; what is not below one is
\* taken for a percentage.
ParseQuote(body) ==
    IF body.error # None \/ OrZero(body.out) <= 0 THEN None
    ELSE [out |-> body.out,
          impact |-> LET share == OrZero(body.impact)
                     IN  IF share < 100 THEN share ELSE share \div 100]

\* Both ways of a round trip; it may be that only the way in can be quoted.
ParseRoundTrip(answer) ==
    LET in == ParseQuote(answer.buy)
        out == ParseQuote(answer.sell)
    IN  IF in = None THEN None
        ELSE [impact |-> in.impact,
              exitImpact |-> IF out = None THEN None ELSE out.impact,
              back |-> IF out = None THEN None ELSE out.out]

\* Whether it is worth asking again.  A provider that is unavailable is not such an error: it
\* reaches the caller as it is.
Retryable(error) == error \in {"limited", "timeout", "server"}

=============================================================================
