------------------------------- MODULE DcaRun ------------------------------
(***************************************************************************)
(* The DCA template of backtesting-py/cutie_backtesting_provider.py        *)
(* (_build_dca): a buy at every period, bounded extra buys on dips, and    *)
(* the whole round sold at its profit target.                              *)
(***************************************************************************)
EXTENDS ScaleRun, FiniteSets

CONSTANTS
  DipAmount,               \* amount * dip_multiplier
  DipPct, ProfitPct,
  MaxDipAdds,
  PeriodLength             \* a day or a week

DcaParameters ==
  /\ DipAmount \in Nat \ {0} /\ DipPct \in 1..20 /\ ProfitPct \in 1..100
  /\ MaxDipAdds \in 0..10 /\ PeriodLength \in Nat \ {0}
  /\ LotOrder = "fifo"
  /\ Signals = {Signal("buy"), [Signal("buy") EXCEPT !.notional = DipAmount],
                [Signal("sell_all") EXCEPT !.kind = "take_profit"]}

VARIABLES
  roundNotional, roundQty, lastBuyPrice,
  dipAdds,                     \* dip_adds_this_round
  pendingAmount, pendingDip,
  roundsCompleted, dipAddsTotal,     \* stats
  dips                         \* history: bars whose close left a dip buy pending

roundMemory == <<roundNotional, roundQty, lastBuyPrice, dipAdds, pendingAmount, pendingDip,
                 roundsCompleted, dipAddsTotal, dips>>
dcaVars == <<vars, roundMemory>>

Period(i) == OpenTime(i) \div PeriodLength

AtTarget(close) ==
  roundQty > 0 /\ 100 * close * roundQty >= roundNotional * (100 + ProfitPct)

Dipped(close) ==
  /\ roundQty > 0 /\ dipAdds < MaxDipAdds
  /\ 100 * close <= lastBuyPrice * (100 - DipPct)

\* What signal() returns: the target, then a dip, then a new period.
DcaSignal(close) ==
  IF AtTarget(close) THEN [Signal("sell_all") EXCEPT !.kind = "take_profit"]
  ELSE IF Dipped(close) THEN [Signal("buy") EXCEPT !.notional = DipAmount]
  ELSE IF Period(bar + 1) # Period(bar) THEN Signal("buy")
  ELSE Hold

\* Mutation: an entry the gate refuses still spends a dip.
RememberBlocked(close) ==
  /\ dipAdds' = IF ~AtTarget(close) /\ Dipped(close) THEN dipAdds + 1 ELSE dipAdds
  /\ pendingAmount' = pendingAmount /\ pendingDip' = pendingDip
  /\ UNCHANGED <<roundNotional, roundQty, lastBuyPrice, roundsCompleted, dipAddsTotal, dips>>

\* The rollback when the entry gate refuses the buy: entry_state_before.
RollBack(close) ==
  UNCHANGED roundMemory

\* What signal() remembers of the answer it gives: a dip is spent when it is
\* asked for, whether or not the cash is there.
RememberAsk(close) ==
  LET answer == DcaSignal(close)
      dip == ~AtTarget(close) /\ Dipped(close)
  IN /\ dipAdds' = IF dip THEN dipAdds + 1 ELSE dipAdds
     /\ pendingDip' = dip
     /\ pendingAmount' = IF answer.action = "buy" THEN answer.notional ELSE pendingAmount
     /\ dips' = IF dip THEN dips \cup {bar} ELSE dips
     /\ UNCHANGED <<roundNotional, roundQty, lastBuyPrice, roundsCompleted, dipAddsTotal>>

\* The quantity on_fill works out for itself.
FilledQty(price) == FloorQty(pendingAmount, price)

\* on_fill.
OnRoundFill(filled, price) ==
  IF filled /\ pending.action = "sell_all"
  THEN /\ roundNotional' = 0 /\ roundQty' = 0 /\ lastBuyPrice' = None
       /\ dipAdds' = 0
       /\ roundsCompleted' = roundsCompleted + 1
       /\ UNCHANGED <<pendingAmount, pendingDip, dipAddsTotal, dips>>
  ELSE IF filled /\ pending.action = "buy"
  THEN /\ roundNotional' = roundNotional + FilledQty(price) * price
       /\ roundQty' = roundQty + FilledQty(price)
       /\ lastBuyPrice' = price
       /\ dipAddsTotal' = IF pendingDip THEN dipAddsTotal + 1 ELSE dipAddsTotal
       /\ UNCHANGED <<dipAdds, pendingAmount, pendingDip, roundsCompleted, dips>>
  ELSE UNCHANGED roundMemory

FirstRound ==
  /\ roundNotional = 0 /\ roundQty = 0 /\ lastBuyPrice = None
  /\ dipAdds = 0 /\ pendingAmount = BuyNotional /\ pendingDip = FALSE
  /\ roundsCompleted = 0 /\ dipAddsTotal = 0 /\ dips = {}

DcaInit == Init /\ FirstRound

DcaOpen(price) == OpenBar(price) /\ OnRoundFill(Fill(price).filled, price)

DcaClose(price) ==
  IF ~Asks THEN CloseBar(price, Hold) /\ UNCHANGED roundMemory
  ELSE /\ CloseBar(price, DcaSignal(price))
       /\ IF Blocked(DcaSignal(price)) THEN RollBack(price) ELSE RememberAsk(price)

DcaNext ==
  \/ \E price \in OpenPrices : DcaOpen(price)
  \/ \E price \in ClosePrices : DcaClose(price)
  \/ Finish /\ UNCHANGED roundMemory

DcaSpec == DcaInit /\ [][DcaNext]_dcaVars

-----------------------------------------------------------------------------
Running == phase \in {"open", "close", "end"}

\* The template's round is the ledger's: the quantity and the cost its
\* profit target is measured on are those of the lots held, and the price a
\* dip is measured from is that of the last lot bought.
RoundMirrorsTheLots ==
  Running =>
    /\ roundQty = Holding(ledger)
    /\ roundNotional = Total([i \in DOMAIN ledger.lots |->
                                ledger.lots[i].qty * ledger.lots[i].entry_price])
    /\ lastBuyPrice = IF ledger.lots = <<>> THEN None ELSE Last(ledger.lots).entry_price

\* The dips of the running round are the ones asked for since its first fill
\* and not refused by the gate; a round has at most max_dip_adds, and one that
\* is over leaves none.
DipsAreCounted ==
  phase = "open" /\ held # <<>> =>
    /\ dipAdds <= MaxDipAdds
    /\ dipAdds = IF Last(held)
                 THEN Cardinality({i \in dips : i >= RoundFirst(Len(held) - 1)}) ELSE 0

\* Rounds reported are the opens at which a round was sold.
RoundsAreCounted ==
  roundsCompleted =
    Cardinality({ledger.trades[i].closed_at :
                   i \in {k \in 1..Len(ledger.trades) : ledger.trades[k].kind # "end_of_data"}})
=============================================================================
