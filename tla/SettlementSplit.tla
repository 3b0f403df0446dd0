--------------------------- MODULE SettlementSplit ---------------------------
(***************************************************************************)
(* How the settle request divides a net amount among its recipients        *)
(* (event-settlement-orchestration-service.ts, prepareRecipients): by the  *)
(* amounts it was given, by weight, or in equal parts.  It is a function   *)
(* of the request alone and refuses before anything has been written.      *)
(*                                                                         *)
(* Amounts are whole numbers of the smallest unit; a fraction is refused   *)
(* where an amount is used.  Ratios only describe the result and are left  *)
(* out.  Products and sums are exact here, and in the code below 2^53.     *)
(***************************************************************************)
EXTENDS Integers, FiniteSets, Functions, FiniteSetsExt

CONSTANTS MaxNet,         \* the largest net amount considered
          MaxWeight,      \* the largest weight considered
          MaxRecipients,  \* the length of the longest list of recipients
          Unset           \* an amount or a weight that was left out

ASSUME SplitBounds ==
  /\ MaxNet \in Nat /\ MaxWeight \in Nat \ {0} /\ MaxRecipients \in Nat
  /\ Unset \notin Nat

\* A list of n recipients.  Characters are numbered: what matters of them is
\* whether two are the same.
RecipientLists(n) ==
  [1..n -> [characterId : 1..n,
            amount      : 0..MaxNet \cup {Unset},
            weight      : 1..MaxWeight \cup {Unset}]]

SplitRequests ==
  [allocationMode : {"equal", "weight", "manual"},
   netAmount      : 0..MaxNet,
   recipients     : UNION {RecipientLists(n) : n \in 0..MaxRecipients}]

-------------------------------------------------------------------------------

\* The sum of f over its domain.
sumOver(f) == MapThenSumSet(LAMBDA i : f[i], DOMAIN f)

hasExplicitAmounts(recipients) ==
  \A i \in DOMAIN recipients : recipients[i].amount # Unset

explicitAmounts(recipients) == [i \in DOMAIN recipients |-> recipients[i].amount]

\* Faulty variant: a missing weight counts as none (?? 0 for ?? 1).
weightsOfZero(recipients) ==
  [i \in DOMAIN recipients |->
     IF recipients[i].weight = Unset THEN 0 ELSE recipients[i].weight]

weightsOf(recipients) ==
  [i \in DOMAIN recipients |->
     IF recipients[i].weight = Unset THEN 1 ELSE recipients[i].weight]

uniqueRecipients(recipients) ==
  IsInjective([i \in DOMAIN recipients |-> recipients[i].characterId])

buildEqualRecipients(recipients, totalAmount) ==
  [i \in DOMAIN recipients |-> totalAmount \div Cardinality(DOMAIN recipients)]

\* Faulty variant: shares rounded to the nearest unit, as Math.round would.
buildWeightedRecipientsRounded(recipients, totalAmount) ==
  LET weights == weightsOf(recipients)
      total   == sumOver(weights)
  IN  [i \in DOMAIN recipients |->
         (2 * totalAmount * weights[i] + total) \div (2 * total)]

buildWeightedRecipients(recipients, totalAmount) ==
  LET weights == weightsOf(recipients)
  IN  [i \in DOMAIN recipients |->
         (totalAmount * weights[i]) \div sumOver(weights)]

\* Amounts count only when every recipient has one, and then in every mode.
prepares(request) ==
  LET recipients == request.recipients
  IN  /\ DOMAIN recipients # {}
      /\ uniqueRecipients(recipients)
      /\ IF hasExplicitAmounts(recipients)
         THEN sumOver(explicitAmounts(recipients)) = request.netAmount
         ELSE /\ request.allocationMode # "manual"
              /\ request.allocationMode = "weight"
                   => sumOver(weightsOf(recipients)) > 0

\* The amount of each allocation, for a request that is not refused.
prepareRecipients(request) ==
  LET recipients == request.recipients
  IN  CASE hasExplicitAmounts(recipients) -> explicitAmounts(recipients)
        [] ~hasExplicitAmounts(recipients) /\ request.allocationMode = "weight"
             -> buildWeightedRecipients(recipients, request.netAmount)
        [] OTHER -> buildEqualRecipients(recipients, request.netAmount)

-------------------------------------------------------------------------------

accepted == {request \in SplitRequests : prepares(request)}

leftOver(request) == request.netAmount - sumOver(prepareRecipients(request))

(***************************************************************************)
(* No settle request distributes more than its net amount, and what the    *)
(* rounding leaves undistributed is less than one unit per recipient:      *)
(* nobody is overpaid and nothing but rounding is lost, however lists of   *)
(* amounts, weights and omissions are combined.                            *)
(***************************************************************************)
DivisionExhaustsNet ==
  \A request \in accepted :
    /\ leftOver(request) >= 0
    /\ leftOver(request) < Cardinality(DOMAIN request.recipients)

(***************************************************************************)
(* The shares follow the weights and nothing else: when the code divides,  *)
(* a heavier recipient never receives less than a lighter one, and who     *)
(* was given no weight is treated like everybody in an equal split.        *)
(***************************************************************************)
SharesFollowWeights ==
  \A request \in accepted :
    LET shares  == prepareRecipients(request)
        weights == [i \in DOMAIN shares |->
                      IF request.recipients[i].weight = Unset
                      THEN 1 ELSE request.recipients[i].weight]
        equal   == prepareRecipients([request EXCEPT !.allocationMode = "equal"])
    IN  ~hasExplicitAmounts(request.recipients) =>
          /\ \A i, j \in DOMAIN shares :
               weights[i] <= weights[j] => shares[i] <= shares[j]
          /\ Cardinality({weights[i] : i \in DOMAIN weights}) = 1 => shares = equal
===============================================================================
