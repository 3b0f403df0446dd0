---------------------------- MODULE MCLedgerSteps ----------------------------
(***************************************************************************)
(* Workers w1 and w2 and the requests each may send.                       *)
(***************************************************************************)
EXTENDS LedgerStepsProperties, MCLedger

CONSTANTS w1, w2

\* The ledger of one event, all requests, one worker.
EveryRequest ==
  [w \in Worker |->
    { request("createEvent", e1, <<p1>>), request("editEvent", e1, <<>>),
      request("markReady", e1, <<>>), request("cancelEvent", e1, <<>>),
      request("createSettlement", s1, <<p1>>), request("settle", s1, <<a1>>),
      request("editSettlement", s1, <<>>), request("markCalculated", s1, <<>>),
      request("startPaying", s1, <<>>), request("markPaid", s1, <<>>),
      request("cancelSettlement", s1, <<>>),
      request("createAllocation", a1, <<>>), request("createAllocation", a2, <<>>),
      request("waive", a1, <<>>), request("cancelAllocation", a2, <<>>),
      request("recordClaim", c1, <<>>), request("confirmClaim", c1, <<>>),
      request("voidClaim", c1, <<>>), request("confirmClaim", c5, <<>>),
      request("batch", "all", <<c1, c5>>), request("batch", "all", <<c2>>),
      request("disburse", s1, <<c1>>), request("disburse", s1, <<c5, c2>>) }]

\* Claims are recorded on the draft or later; two workers start the payout, close
\* the shares, by a claim or by waiving them, and complete the settlement.
ConfirmRequests ==
  LET both == { request("markReady", e1, <<>>), request("markCalculated", s1, <<>>),
                request("startPaying", s1, <<>>), request("confirmClaim", c1, <<>>),
                request("confirmClaim", c5, <<>>) }
  IN  [w \in Worker |-> both \cup
         IF w = w1
         THEN { request("createEvent", e1, <<>>), request("createSettlement", s1, <<p1>>),
                request("createAllocation", a1, <<>>), request("createAllocation", a2, <<>>),
                request("recordClaim", c1, <<>>), request("waive", a1, <<>>) }
         ELSE { request("recordClaim", c5, <<>>), request("waive", a2, <<>>),
                request("markPaid", s1, <<>>) }]

\* The two shares of a calculated settlement are closed without claims.
CloseRequests ==
  [w \in Worker |->
     IF w = w1
     THEN { request("createEvent", e1, <<>>), request("settle", s1, <<a1, a2>>),
            request("waive", a1, <<>>) }
     ELSE { request("cancelAllocation", a2, <<>>) }]

\* One worker settles the event and has its share claimed, the other interferes.
RivalRequests ==
  [w \in Worker |->
     IF w = w1
     THEN { request("createEvent", e1, <<p1>>), request("createSettlement", s1, <<p1>>),
            request("settle", s1, <<a1>>), request("disburse", s1, <<c1>>),
            request("confirmClaim", c1, <<>>) }
     ELSE { request("editEvent", e1, <<p1>>), request("markReady", e1, <<>>),
            request("startPaying", s1, <<>>), request("cancelSettlement", s1, <<>>),
            request("editSettlement", s1, <<>>), request("recordClaim", c2, <<>>),
            request("voidClaim", c1, <<>>) }]

\* With a settlement that belongs to no event, and a share without a character.
StandaloneToo ==
  [w \in Worker |-> EveryRequest[w] \cup
    { request("createSettlement", s3, <<>>), request("createAllocation", a4, <<>>),
      request("disburse", s3, <<c6>>), request("waive", a5, <<>>) }]

\* A claim is recorded twice at the same time.
RecordRequests ==
  [w \in Worker |->
     IF w = w1
     THEN { request("createEvent", e1, <<p1>>), request("settle", s1, <<a1>>),
            request("recordClaim", c1, <<>>) }
     ELSE { request("recordClaim", c2, <<>>) }]

\* One share, from the event to the confirmation.
OneShareRequests ==
  [w \in Worker |->
    { request("createEvent", e1, <<p1>>), request("settle", s1, <<a1>>),
      request("recordClaim", c1, <<>>), request("confirmClaim", c1, <<>>) }]
===============================================================================
