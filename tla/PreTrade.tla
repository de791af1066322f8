------------------------------ MODULE PreTrade ------------------------------
(***************************************************************************)
(* What place() and amend() ask before an order may go to the venue: the   *)
(* limits of RiskManager (risk_manager.cpp), the venue's instrument rules  *)
(* and the available balance (order_gateway.cpp), in the fixed-point       *)
(* arithmetic of Decimal (decimal.cpp).                                    *)
(*                                                                         *)
(* A number is the raw value of a Decimal.  An optional value is None.  A  *)
(* MARKET order is one without price.  A verdict is "accept", "reject", or *)
(* "throw": Decimal's checked arithmetic ends the command in an exception. *)
(***************************************************************************)
EXTENDS OrderStateMachine

CONSTANTS Scale,     \* Decimal::scale: the raw value of one
          MaxRaw     \* the largest raw value

ASSUME DecimalAssumption == Scale \in Nat \ {0} /\ MaxRaw \in Nat

\* checked_from_wide
Representable(n) == n \in -MaxRaw - 1 .. MaxRaw

\* operator*: the product is cut off after the last digit kept, towards zero.
Times(a, b) == IF a * b >= 0 THEN (a * b) \div Scale ELSE -((-(a * b)) \div Scale)

Abs(n) == IF n < 0 THEN -n ELSE n

\* signed_quantity
Signed(side, quantity) == IF side = "Buy" THEN quantity ELSE -quantity

Require(condition) == IF condition THEN "accept" ELSE "reject"

\* An optional minimum, maximum and step of one quantity; violates_step.
Within(value, range) ==
    /\ range.min # None => value >= range.min
    /\ range.max # None => value <= range.max
    /\ range.step # None => range.step <= 0 \/ value % range.step = 0

(***************************************************************************)
(* RiskManager::validate.  price is the one the notional value is computed *)
(* with.  The sum that does not fit and the absolute value of the smallest *)
(* number are exceptions as well.                                          *)
(***************************************************************************)
Validate(limits, side, price, quantity, position) ==
    LET projected == position + Signed(side, quantity)
    IN  IF limits = None \/ quantity <= 0 \/ quantity > limits.maxOrderSize \/ price = None
        THEN "reject"
        ELSE IF ~Representable(Times(quantity, price)) THEN "throw"
        ELSE IF Times(quantity, price) > limits.maxNotional THEN "reject"
        ELSE IF ~Representable(projected) \/ projected = -MaxRaw - 1 THEN "throw"
        ELSE Require(Abs(projected) <= limits.position)

\* check_new_with_position; a market order without quote uses the configured reference price.
CheckNew(limits, request, position, quote) ==
    IF request.price # None /\ request.price <= 0 THEN "reject"
    ELSE Validate(limits, request.side,
                  IF request.price # None THEN request.price
                  ELSE IF quote # None \/ limits = None THEN quote ELSE limits.reference,
                  request.quantity, position)

\* check_amend_with_position for a new quantity; active_operations_ has been looked at before.
CheckAmend(limits, side, order, quantity, others) ==
    IF \/ IsTerminal(order.status) \/ order.status = "Unknown"
       \/ order.price = None \/ quantity < order.filled \/ order.pending # "None"
    THEN "reject"
    ELSE Validate(limits, side, order.price, quantity, others)

\* The price an order would execute at, as far as it is known.
ExecutablePrice(request, quote) == IF request.price # None THEN request.price ELSE quote

\* Mutant: the limits of the quantity are asked for market orders only.
QuantityLegal_OnlyMarket(request, rules) ==
    request.price = None => Within(request.quantity, rules.marketQuantity)

QuantityLegal(request, rules) ==
    /\ Within(request.quantity, rules.quantity)
    /\ request.price = None => Within(request.quantity, rules.marketQuantity)

\* instrument_rules_decision; rules is None when they could not be had.
RulesDecision(request, quote, rules) ==
    LET price == ExecutablePrice(request, quote)
    IN  IF \/ rules = None \/ ~rules.trading
           \/ ~QuantityLegal(request, rules)
           \/ request.price # None /\ ~Within(request.price, rules.price)
        THEN "reject"
        ELSE IF price = None THEN "accept"
        ELSE IF ~Representable(Times(request.quantity, price)) THEN "throw"
        ELSE Require(Within(Times(request.quantity, price),
                            IF request.price = None THEN rules.marketNotional ELSE rules.notional))

\* funding_requirement: the base currency for a sale, the quote currency for a purchase.
FundingRequirement(request, quote) ==
    IF request.side = "Sell" THEN request.quantity
    ELSE IF ExecutablePrice(request, quote) = None THEN None
    ELSE Times(request.quantity, ExecutablePrice(request, quote))

\* funding_decision; available is None when the balance could not be had.
FundingDecision(request, quote, available) ==
    LET required == FundingRequirement(request, quote)
    IN  Require(required = None \/ (available # None /\ available >= required))

(***************************************************************************)
(* The decision of place().  Rules and balance are looked at before the    *)
(* lock, the limits under it; the limits are asked whatever the rules say. *)
(* Without a quote a market order is refused if there is a book of quotes. *)
(***************************************************************************)
PlaceDecision(limits, request, position, market, rules, available) ==
    LET instrument == RulesDecision(request, market.quote, rules)
        funding == IF instrument = "accept"
                   THEN FundingDecision(request, market.quote, available) ELSE "accept"
        risk == IF request.price = None /\ market.book /\ market.quote = None THEN "reject"
                ELSE CheckNew(limits, request, position, market.quote)
    IN  CASE "throw" \in {instrument, risk} -> "throw"
          [] "throw" \notin {instrument, risk} ->
                Require({instrument, risk, funding} = {"accept"})
=============================================================================
