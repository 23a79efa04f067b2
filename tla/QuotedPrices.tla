---------------------------- MODULE QuotedPrices ----------------------------
(***************************************************************************)
(* What the model may say of money, and who works out the numbers: the     *)
(* discount (discount.service.ts), a reply of the sales agent, held        *)
(* against the price its turn began with (sales-agent.ts), and the first   *)
(* text of a campaign, which names none (personalization.ts with           *)
(* output-guard.ts).  A text is a sequence of words of the kinds these     *)
(* checks tell apart; an amount keeps its digits, the place of its point   *)
(* and its script.                                                          *)
(***************************************************************************)
EXTENDS Naturals, Sequences

CONSTANTS
  Prices,      \* prices a product may be given, in halalas
  Percents,    \* greatest discounts it may be given
  Amounts,     \* amounts a text may name: [digits, point]
  TextLength,  \* words of a text
  Tries        \* answers asked for before the turn is given up: 2 and up to 3 in the code

\* Below one riyal the written digits begin with a zero, which the digits here do not keep.
ASSUME PricesAssumption ==
  /\ \A p \in Prices : p \in Nat /\ (p % 100 = 0 \/ p >= 100)
  /\ Percents \subseteq Nat /\ TextLength \in Nat /\ Tries \in Nat \ {0}

VARIABLES
  onSale,  \* [price, percent, removed] of sales_products
  writing, \* what is being written: [at, kind, price, tries]; price as the turn read it
  wording, \* the text that was accepted
  offer,   \* the discount_offers row, [original, percent, amount, final], or NoOffer
  repriced \* history: the product was edited since the turn read it

priceVars == <<onSale, writing, wording, offer, repriced>>

PlatformMaxDiscount == 5

Word(kind) == [is |-> kind, digits |-> 0, point |-> 0, arabic |-> FALSE]
NumberWords ==
  {[is |-> "number", digits |-> a.digits, point |-> a.point, arabic |-> s] : a \in Amounts, s \in BOOLEAN}
WordKinds == {"price", "SAR", "discount", "no discount", "%", "trusted link", "other link", "plain"}
WordSequences == UNION {[1..n -> NumberWords \cup {Word(kind) : kind \in WordKinds}] : n \in 1..TextLength}

NoOffer == [original |-> 0, percent |-> 0, amount |-> 0, final |-> 0]

PricesTypeOK ==
  /\ onSale \in [price : Prices, percent : 0..PlatformMaxDiscount, removed : BOOLEAN]
  /\ writing \in [at : {"idle", "asking", "sent", "ready", "handed", "failed"},
                  kind : {"none", "reply", "first"}, price : {0} \cup Prices, tries : 0..Tries]
  /\ wording = <<>> \/ wording \in WordSequences
  /\ offer = NoOffer \/ (offer.original \in Prices /\ offer.final \in 0..offer.original)
  /\ repriced \in BOOLEAN

-----------------------------------------------------------------------------
(* Money *)

\* formatSarMinor: halalas are written only where there are any.
FormatSar(minor) ==
  IF minor % 100 = 0 THEN [digits |-> minor \div 100, point |-> 0] ELSE [digits |-> minor, point |-> 2]

Worth(amount) == (amount.digits * 100) \div 10^amount.point

\* computeDiscountMath, in halalas and rounded down.
ComputeDiscount(price, percent) ==
  LET kept == IF percent > PlatformMaxDiscount THEN PlatformMaxDiscount ELSE percent
      amount == (price * kept) \div 100
  IN [original |-> price, percent |-> kept, amount |-> amount, final |-> price - amount]

-----------------------------------------------------------------------------
(* The checks *)

Is(t, i, kind) == i \in DOMAIN t /\ t[i].is = kind

MentionsDiscount(t) ==
  \E i \in DOMAIN t :
    \/ t[i].is \in {"discount", "no discount"}
    \/ t[i].is = "number" /\ (Is(t, i + 1, "%") \/ Is(t, i - 1, "%"))

\* A number before the currency, after it, or within reach after a word for prices.
MentionsPrice(t) ==
  \E i, j \in DOMAIN t : i < j /\
    \/ t[j].is = "SAR" /\ \A k \in i..(j - 1) : t[k].is = "number"
    \/ t[i].is = "SAR" /\ j = i + 1 /\ t[j].is = "number"
    \/ t[i].is = "price" /\ j <= i + 2 /\ t[j].is = "number"

UntrustedUrl(t, trusted) ==
  \E i \in DOMAIN t : t[i].is \in {"trusted link", "other link"} \ trusted

Latin(t, i) == Is(t, i, "number") /\ ~t[i].arabic

Named(t) == {i \in DOMAIN t : Latin(t, i) /\ Is(t, i + 1, "SAR")}

\* containsUnauthorizedNumbers: digits are compared, whatever stands between them.
UnauthorizedNumbers(t, price) ==
  \/ /\ \E i \in DOMAIN t : Is(t, i, "discount") /\ Latin(t, i + 1)
     /\ \A i \in DOMAIN t : ~Is(t, i, "no discount")
  \/ \E i \in Named(t) : t[i].digits # FormatSar(price).digits

ReplyPasses(t, price) == ~UnauthorizedNumbers(t, price) /\ ~UntrustedUrl(t, {"trusted link"})
FirstTextPasses(t) == ~MentionsDiscount(t) /\ ~MentionsPrice(t) /\ ~UntrustedUrl(t, {})

Passes(t) == IF writing.kind = "reply" THEN ReplyPasses(t, writing.price) ELSE FirstTextPasses(t)

-----------------------------------------------------------------------------
(* The product, the turn, the offer *)

PricesInit ==
  /\ \E p \in Prices, q \in Percents :
       onSale = [price |-> p, percent |-> ComputeDiscount(p, q).percent, removed |-> FALSE]
  /\ writing = [at |-> "idle", kind |-> "none", price |-> 0, tries |-> 0]
  /\ wording = <<>> /\ offer = NoOffer /\ repriced = FALSE

\* Where one product will do.
PricesAtRest ==
  /\ \A p \in Prices : onSale.price <= p
  /\ \A q \in Percents : onSale.percent <= q

\* Until the text is accepted; what is edited later is the next turn's.
BeingWritten == writing.at \in {"idle", "asking"}

\* The percentage is cut to the platform's.
UpdateProduct ==
  /\ ~onSale.removed /\ ~repriced /\ BeingWritten
  /\ \E p \in Prices, q \in Percents :
       LET edited == [onSale EXCEPT !.price = p, !.percent = ComputeDiscount(p, q).percent] IN
       edited # onSale /\ onSale' = edited
  /\ repriced' = TRUE
  /\ UNCHANGED <<writing, wording, offer>>

WithdrawProduct ==
  /\ ~onSale.removed /\ BeingWritten /\ onSale' = [onSale EXCEPT !.removed = TRUE]
  /\ UNCHANGED <<writing, wording, offer, repriced>>

\* The context of the turn, with the price as it is now; a removed product is still found.
ReadProduct(kind) ==
  /\ writing.at = "idle"
  /\ writing' = [at |-> "asking", kind |-> kind, price |-> onSale.price, tries |-> 0]
  /\ repriced' = FALSE
  /\ UNCHANGED <<onSale, wording, offer>>

\* structuredCall: a text that passes is sent, or kept for the campaign.
AcceptText(t) ==
  /\ writing.at = "asking" /\ Passes(t)
  /\ writing' = [writing EXCEPT !.at = IF writing.kind = "reply" THEN "sent" ELSE "ready"]
  /\ wording' = t
  /\ UNCHANGED <<onSale, offer, repriced>>

\* One that does not is asked for again, then the turn is handed over or the row FAILED.
RefuseText ==
  /\ writing.at = "asking" /\ \E t \in WordSequences : ~Passes(t)
  /\ LET last == writing.tries + 1 = Tries
         over == IF writing.kind = "reply" THEN "handed" ELSE "failed"
     IN writing' = [writing EXCEPT !.tries = @ + 1, !.at = IF last THEN over ELSE "asking"]
  /\ UNCHANGED <<onSale, wording, offer, repriced>>

\* OFFER_DISCOUNT, or the tool of a call: the product is read again, and has to be there.
OfferDiscount ==
  /\ writing.at = "asking" /\ writing.kind = "reply"
  /\ \/ onSale.removed /\ writing' = [writing EXCEPT !.at = "failed"] /\ UNCHANGED offer
     \/ /\ ~onSale.removed /\ writing' = [writing EXCEPT !.at = "sent"]
        /\ offer' = ComputeDiscount(onSale.price, onSale.percent)
  /\ UNCHANGED <<onSale, wording, repriced>>

PricesNext ==
  \/ UpdateProduct \/ WithdrawProduct
  \/ \E kind \in {"reply", "first"} : ReadProduct(kind)
  \/ \E t \in WordSequences : AcceptText(t)
  \/ RefuseText \/ OfferDiscount

PricesSpec == PricesInit /\ [][PricesNext]_priceVars

-----------------------------------------------------------------------------
(* An amount a reply names beside the currency is worth the product's price *)
(* when the turn began, and still is unless the product was edited, where   *)
(* it is written with as many decimals (sales-agent.ts:38-41).              *)
ReplyIsOfficial ==
  writing.at = "sent" /\ writing.kind = "reply" =>
    \A i \in Named(wording) :
      wording[i].point = FormatSar(writing.price).point =>
        Worth(wording[i]) = writing.price /\ (~repriced => Worth(wording[i]) = onSale.price)

InOtherScript(t) ==
  [i \in DOMAIN t |-> IF t[i].is = "number" THEN [t[i] EXCEPT !.arabic = ~@] ELSE t[i]]

(* A first text that passes would pass in the other script, and the reply's *)
(* check has nothing against its amounts either (output-guard.ts:1-19).     *)
FirstTextIsSilent ==
  writing.at = "ready" =>
    FirstTextPasses(InOtherScript(wording)) /\ \A p \in Prices : ~UnauthorizedNumbers(wording, p)

(* An offer leaves the price at or above its floor, costs at most the       *)
(* platform's share, and is told in the amounts it consists of              *)
(* (discount.service.ts:9-14).                                               *)
OffersInBounds ==
  offer # NoOffer =>
    /\ offer.final * 100 >= offer.original * (100 - PlatformMaxDiscount)
    /\ offer.final + offer.amount = offer.original /\ offer.percent <= PlatformMaxDiscount
    /\ \A minor \in {offer.original, offer.final} : Worth(FormatSar(minor)) = minor

PricesHold == ReplyIsOfficial /\ FirstTextIsSilent /\ OffersInBounds
=============================================================================
