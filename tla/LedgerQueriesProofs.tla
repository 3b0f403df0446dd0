-------------------------- MODULE LedgerQueriesProofs --------------------------
(***************************************************************************)
(* Proofs about what the read side shows of the ledger, for any rows, any  *)
(* amounts, payers and holders.                                            *)
(***************************************************************************)
EXTENDS LedgerQueries, LedgerProofs, FiniteSetTheorems

\* The two lists of claimable shares and recordClaim ask the same question.
LEMMA RowsAreClaimable ==
  ASSUME IInv
  PROVE  /\ listClaimableRows = {a \in Allocation : claimable(a) /\ CharacterOf[a] # NoCharacter}
         /\ listRecipientRows = listClaimableRows
<1>1. ASSUME NEW a \in Allocation, allocationStatus[a] = "pending"
      PROVE  unpaid(SettlementOf[a]) <=>
               settlementStatus[SettlementOf[a]] \notin {"cancelled", "paid"}
  <2>1. settlementStatus[SettlementOf[a]] \in Absent(SettlementStatus) \ {"absent"}
    BY <1>1, ForeignKeys DEF IInv, Inv, ParentsExist, exists, TypeOK
  <2> QED BY <2>1 DEF unpaid, Absent, SettlementStatus
<1>2. listClaimableRows = {a \in Allocation : claimable(a) /\ CharacterOf[a] # NoCharacter}
  BY <1>1 DEF listClaimableRows, claimable
<1>3. listRecipientRows = listClaimableRows
  BY DEF listRecipientRows, listClaimableRows
<1> QED BY <1>2, <1>3

LEMMA EmptyTotal == total({}) = 0
BY DEF total, MapThenSumSet, MapThenFoldSet

\* Whatever was recorded, confirmed and voided, and however amounts, payers and
\* members are spread: the claimable list, the claim workspace and the dashboard
\* of a character show the shares that recordClaim accepts, and add them up alike.
THEOREM OffersAreClaimable == Spec => []OfferedSharesAreClaimable
<1>1. ASSUME IInv PROVE OfferedSharesAreClaimable
  <2>1. /\ listClaimableRows =
             {a \in Allocation : claimable(a) /\ CharacterOf[a] # NoCharacter}
        /\ listRecipientRows = listClaimableRows
    BY <1>1, RowsAreClaimable
  <2>2. ClaimableRecipientSummaries = ClaimableRecipients
    BY <2>1 DEF ClaimableRecipientSummaries, ClaimableRecipients
  <2>3. ASSUME NEW p \in Character
        PROVE  ClaimableRecipientWorkspace(p).allocations =
                 ClaimableRecipientDetail(p).allocations
    BY <2>1 DEF ClaimableRecipientWorkspace, ClaimableRecipientDetail
  <2>4. ASSUME NEW p \in Character
        PROVE  CharacterSummary(p).receivableAmountTotal =
                 ClaimableRecipientDetail(p).recipient.pendingClaimAmountTotal
    <3>1. PendingReceivables(p) = rowsOf(listClaimableRows, p)
      BY ForeignKeys
         DEF PendingReceivables, rowsOf, listClaimableRows, hasActiveClaim
    <3>2. CharacterSummary(p).receivableAmountTotal = total(rowsOf(listClaimableRows, p))
      BY <3>1 DEF CharacterSummary
    <3>3. CASE rowsOf(listClaimableRows, p) = {}
      BY <3>2, <3>3, EmptyTotal DEF ClaimableRecipientDetail, ClaimableRecipients
    <3>4. CASE rowsOf(listClaimableRows, p) # {}
      BY <3>2, <3>4 DEF ClaimableRecipientDetail, ClaimableRecipients, buildSummary
    <3> QED BY <3>3, <3>4
  <2>5. ASSUME NEW p \in Character, NEW a \in listRecipientRows, PayerOf[SettlementOf[a]] = p
        PROVE  a \in PendingPayables(p)
    BY <2>5 DEF listRecipientRows, PendingPayables, hasActiveClaim
  <2> QED BY <2>1, <2>2, <2>3, <2>4, <2>5 DEF OfferedSharesAreClaimable
<1> QED BY <1>1, LedgerInvariant, PTL

-------------------------------------------------------------------------------
(* What a dashboard says of a share.                                        *)

\* The word of a share tells of its only live claim, if it has one.
LEMMA ShownIsTheClaim ==
  ASSUME IInv, NEW a \in Allocation
  PROVE  /\ claimStatusShown(a) # "partial"
         /\ claimStatusShown(a) = "confirmed" <=>
              \E c \in Claim : AllocationOf[c] = a /\ claimStatus[c] = "confirmed"
<1> DEFINE active == activeClaims(claimStatus, a)
           confirmed == {c \in active : claimStatus[c] = "confirmed"}
<1>1. confirmed = {c \in Claim : AllocationOf[c] = a /\ claimStatus[c] = "confirmed"}
  BY DEF activeClaims
<1>2. \A c, d \in active : c = d
  BY DEF activeClaims, IInv, Inv, OneActiveClaim, TypeOK, Absent, ClaimStatus
<1>3. confirmed # {} => confirmed = active
  BY <1>2
<1> QED BY <1>1, <1>3 DEF claimStatusShown

LEMMA DetailTells ==
  ASSUME IInv, NEW a \in Allocation, inDetail(a)
  PROVE  /\ claimStatusShown(a) = "confirmed" <=> allocationStatus[a] = "claimed"
         /\ claimStatusShown(a) # "partial"
<1>1. (\E c \in Claim : AllocationOf[c] = a /\ claimStatus[c] = "confirmed")
        <=> allocationStatus[a] = "claimed"
  BY DEF IInv, Inv, AllocationSummarisesClaims, TypeOK, Absent, AllocationStatus, inDetail
<1> QED BY <1>1, ShownIsTheClaim

\* The claim status that a receiver and a payer are shown, computed from the
\* claims, agrees with the share itself: confirmed is claimed, and no share is
\* half confirmed.
THEOREM DashboardsTell == Spec => []DashboardTellsThePayout
<1>1. ASSUME IInv, NEW p \in Character
      PROVE  \A a \in DOMAIN CharacterDetail(p).receivable :
               /\ CharacterDetail(p).receivable[a] = "confirmed" <=>
                    allocationStatus[a] = "claimed"
               /\ CharacterDetail(p).receivable[a] # "partial"
  BY <1>1, DetailTells DEF CharacterDetail
<1>2. ASSUME IInv, NEW p \in Character
      PROVE  \A a \in DOMAIN CharacterDetail(p).payable :
               /\ CharacterDetail(p).payable[a] = "confirmed" <=>
                    allocationStatus[a] = "claimed"
               /\ CharacterDetail(p).payable[a] # "partial"
  BY <1>2, DetailTells DEF CharacterDetail
<1>3. IInv => DashboardTellsThePayout
  BY <1>1, <1>2 DEF DashboardTellsThePayout
<1> QED BY <1>3, LedgerInvariant, PTL

-------------------------------------------------------------------------------
(* What the event page promises.                                            *)

\* The event page is true to what the settle and the create request accept at
\* that moment, for any events, settlements and recipients: no sync that the
\* request begins with takes back what readiness promised, but for a ready event
\* with an active settlement, and an event shown as settled has one to show.
THEOREM ReadinessIsTrue == Spec => []ReadinessIsHonest
<1>1. ASSUME IInv, NEW e \in Event PROVE
        LET ready == EventDetail(e).settlementReadiness
            free  == {s \in Settlement : settlementStatus[s] = "absent" /\ EventOf[s] = e}
        IN  /\ ready.canCreateSettlement => \A s \in free : acceptsDraft(s)
            /\ ready.canSettleEvent =>
                 \A s \in free :
                   \A a \in {x \in Allocation : /\ SettlementOf[x] = s
                                                /\ CharacterOf[x] \in participants[e]} :
                     \/ acceptsSettle(s, {a})
                     \/ eventStatus[e] # "open" /\ ActiveSettlement(e) # {}
            /\ e \in EventsInGroup("settled") => ActiveSettlement(e) # {}
  <2> DEFINE ready == EventDetail(e).settlementReadiness
             free == {s \in Settlement : settlementStatus[s] = "absent" /\ EventOf[s] = e}
             synced == syncStatusFromSettlements(eventStatus, settlementStatus, e)
  <2>1. /\ ready.canCreateSettlement =>
             eventStatus[e] \in {"ready_for_settlement", "partially_settled"}
        /\ ready.canSettleEvent => eventStatus[e] \in {"open", "ready_for_settlement"}
    BY DEF EventDetail, buildSettlementReadiness
  <2>2. /\ eventStatus[e] = "open" => ActiveSettlement(e) = {}
        /\ eventStatus[e] = "partially_settled" =>
             \E s \in ActiveSettlement(e) : settlementStatus[s] # "paid"
        /\ eventStatus[e] = "settled" => ActiveSettlement(e) # {}
    BY <1>1 DEF IInv, Inv, EventReflectsSettlements
  <2>3. synced[e] = SyncedEventStatus(eventStatus[e], settlementStatus, e)
    BY DEF syncStatusFromSettlements
  <2>4. ~syncRefuses(eventStatus, settlementStatus, e)
    BY <2>2 DEF syncRefuses, ActiveSettlement
  <2>5. ASSUME NEW s \in free, ready.canCreateSettlement PROVE acceptsDraft(s)
    <3>1. synced[e] \in {"ready_for_settlement", "partially_settled"}
      BY <2>1, <2>2, <2>3, <2>5 DEF SyncedEventStatus, ActiveSettlement
    <3> QED BY <2>4, <3>1 DEF acceptsDraft
  <2>6. ASSUME NEW s \in free, ready.canSettleEvent,
               NEW a \in Allocation, SettlementOf[a] = s, CharacterOf[a] \in participants[e],
               ActiveSettlement(e) = {}
        PROVE  acceptsSettle(s, {a})
    <3>1. synced[e] = eventStatus[e]
      BY <2>1, <2>3, <2>6 DEF SyncedEventStatus, ActiveSettlement
    <3>2. allocationStatus[a] = "absent" /\ listBySettlement(allocationStatus, s) = {}
      BY <1>1, <2>6 DEF listBySettlement, IInv, Inv, ParentsExist, exists
    <3>3. CharacterOf[a] # NoCharacter
      BY <1>1, <2>6, ForeignKeys DEF IInv, TypeOK
    <3>4. /\ newAllocations(s, {a}) /\ namedRecipients({a})
          /\ uniqueCharacters(allocationStatus, s, {a})
      BY <2>6, <3>2, <3>3 DEF newAllocations, namedRecipients, uniqueCharacters
    <3>5. EventOf[s] = e /\ settlementStatus[s] = "absent" /\ e # NoEvent
      BY ForeignKeys
    <3> QED BY <2>1, <2>4, <2>6, <3>1, <3>4, <3>5 DEF acceptsSettle, ActiveSettlement
  <2>7. e \in EventsInGroup("settled") => ActiveSettlement(e) # {}
    BY <2>2 DEF EventsInGroup, mapEventStatusGroup
  <2> QED BY <2>1, <2>2, <2>5, <2>6, <2>7
<1>2. ASSUME IInv PROVE ReadinessIsHonest
  BY <1>1, <1>2 DEF ReadinessIsHonest
<1> QED BY <1>2, LedgerInvariant, PTL

-------------------------------------------------------------------------------
(* Sums.  The induction over a finite set is the minimal counterexample.    *)

\* g adds up f over each subset of S, one element after the other.
IsSum(f, S, g) ==
  g = [s \in SUBSET S |->
         IF s = {} THEN 0
         ELSE f[CHOOSE x \in s : TRUE] + g[s \ {CHOOSE x \in s : TRUE}]]

\* The sum of f over S, as the totals of the read side are computed.
SumOf(f, S) == MapThenSumSet(LAMBDA x : f[x], S)

\* A set of finite sets has a member that contains no other.
LEMMA MinimalSet ==
  ASSUME NEW S, NEW T, T \subseteq FiniteSubsetsOf(S), T # {}
  PROVE  \E x \in T : \A y \in T : ~ (y \subseteq x /\ y # x)
<1>1. PICK x \in T : \A y \in T : ~ (<<y, x>> \in StrictSubsetOrdering(S))
  BY FS_StrictSubsetOrderingWellFounded, WFMin
<1>2. ASSUME NEW y \in T, y \subseteq x, y # x PROVE FALSE
  <2>1. <<y, x>> \in (SUBSET S) \X (SUBSET S)
    BY DEF FiniteSubsetsOf
  <2>2. <<y, x>> \in StrictSubsetOrdering(S)
    BY <2>1, <1>2 DEF StrictSubsetOrdering
  <2> QED BY <2>2, <1>1
<1> QED BY <1>2

\* A set of subsets of a finite set contains all of them when it contains a set
\* as soon as it contains the smaller ones.
LEMMA BySmallerSets ==
  ASSUME NEW S, IsFiniteSet(S), NEW G,
         \A x \in SUBSET S : (\A y \in SUBSET x : y # x => y \in G) => x \in G
  PROVE  \A x \in SUBSET S : x \in G
<1> DEFINE bad == (SUBSET S) \ G
<1>1. SUFFICES ASSUME bad # {} PROVE FALSE
  OBVIOUS
<1>2. bad \subseteq FiniteSubsetsOf(S)
  BY FS_FiniteSubsetsOfFinite
<1>3. PICK x \in bad : \A y \in bad : ~ (y \subseteq x /\ y # x)
  <2> HIDE DEF bad
  <2> QED BY <1>1, <1>2, MinimalSet
<1>4. \A y \in SUBSET x : y # x => y \in G
  BY <1>3
<1> QED BY <1>3, <1>4

\* The recursion behind a sum has at most one solution,
LEMMA SumUnique ==
  ASSUME NEW f, NEW S, IsFiniteSet(S), NEW g, NEW h, IsSum(f, S, g), IsSum(f, S, h)
  PROVE  g = h
<1> DEFINE G == {s \in SUBSET S : g[s] = h[s]}
<1>1. ASSUME NEW x \in SUBSET S, \A y \in SUBSET x : y # x => y \in G
      PROVE  x \in G
  <2>1. CASE x = {}
    BY <2>1 DEF IsSum
  <2>2. CASE x # {}
    <3> DEFINE e == CHOOSE z \in x : TRUE
    <3>1. e \in x
      BY <2>2
    <3> HIDE DEF e
    <3>2. x \ {e} \in SUBSET x /\ x \ {e} # x
      BY <3>1
    <3>3. g[x \ {e}] = h[x \ {e}]
      BY <3>2, <1>1
    <3>4. g[x] = f[e] + g[x \ {e}]
      BY <2>2 DEF IsSum, e
    <3>5. h[x] = f[e] + h[x \ {e}]
      BY <2>2 DEF IsSum, e
    <3> QED BY <3>3, <3>4, <3>5
  <2> QED BY <2>1, <2>2
<1>2. \A x \in SUBSET S : x \in G
  <2> HIDE DEF G
  <2> QED BY <1>1, BySmallerSets
<1> QED BY <1>2 DEF IsSum

\* a solution for a set is one for its subsets,
LEMMA SumRestricts ==
  ASSUME NEW f, NEW S, NEW g, IsSum(f, S, g), NEW T \in SUBSET S
  PROVE  IsSum(f, T, [s \in SUBSET T |-> g[s]])
<1> DEFINE h == [s \in SUBSET T |-> g[s]]
<1>1. ASSUME NEW s \in SUBSET T
      PROVE  g[s] = IF s = {} THEN 0
                    ELSE f[CHOOSE x \in s : TRUE] + h[s \ {CHOOSE x \in s : TRUE}]
  <2>1. s \in SUBSET S
    OBVIOUS
  <2>2. s \ {CHOOSE x \in s : TRUE} \in SUBSET T
    OBVIOUS
  <2>3. h[s \ {CHOOSE x \in s : TRUE}] = g[s \ {CHOOSE x \in s : TRUE}]
    BY <2>2
  <2> HIDE DEF h
  <2> QED BY <2>1, <2>3 DEF IsSum
<1> QED BY <1>1 DEF IsSum

\* and a finite set has one: the solutions of its smaller subsets agree.
LEMMA SumExists ==
  ASSUME NEW f, NEW S, IsFiniteSet(S)
  PROVE  \E g : IsSum(f, S, g)
<1> DEFINE G == {s \in SUBSET S : \E g : IsSum(f, s, g)}
<1>1. ASSUME NEW x \in SUBSET S, \A y \in SUBSET x : y # x => y \in G
      PROVE  x \in G
  <2> DEFINE part(y) == CHOOSE g : IsSum(f, y, g)
  <2>1. ASSUME NEW y \in SUBSET x, y # x PROVE IsSum(f, y, part(y))
    BY <2>1, <1>1
  <2>2. ASSUME NEW y \in SUBSET x, y # x, NEW z \in SUBSET y
        PROVE  part(y)[z] = part(z)[z]
    <3>1. IsSum(f, z, [s \in SUBSET z |-> part(y)[s]])
      BY <2>1, <2>2, SumRestricts
    <3>2. IsSum(f, z, part(z))
      BY <2>1, <2>2
    <3>3. IsFiniteSet(z)
      BY FS_Subset
    <3>4. [s \in SUBSET z |-> part(y)[s]] = part(z)
      BY <3>1, <3>2, <3>3, SumUnique
    <3> QED BY <3>4
  <2> DEFINE rest(s) == s \ {CHOOSE e \in s : TRUE}
             g == [s \in SUBSET x |-> IF s = {} THEN 0
                     ELSE f[CHOOSE e \in s : TRUE] + part(rest(s))[rest(s)]]
  <2>3. ASSUME NEW s \in SUBSET x, s # {} PROVE part(rest(s))[rest(s)] = g[rest(s)]
    <3>1. rest(s) \in SUBSET x /\ rest(s) # x
      BY <2>3
    <3>2. IsSum(f, rest(s), part(rest(s)))
      BY <2>1, <3>1
    <3> DEFINE r == rest(s)
    <3>3. CASE r = {}
      BY <3>1, <3>2, <3>3 DEF IsSum
    <3>4. CASE r # {}
      <4>1. part(r)[r] = f[CHOOSE e \in r : TRUE] + part(r)[rest(r)]
        BY <3>2, <3>4 DEF IsSum
      <4>2. part(r)[rest(r)] = part(rest(r))[rest(r)]
        BY <2>2, <3>1
      <4>3. g[r] = f[CHOOSE e \in r : TRUE] + part(rest(r))[rest(r)]
        BY <3>1, <3>4
      <4> QED BY <4>1, <4>2, <4>3
    <3> QED BY <3>3, <3>4
  <2>4. ASSUME NEW s \in SUBSET x
        PROVE  g[s] = IF s = {} THEN 0 ELSE f[CHOOSE e \in s : TRUE] + g[rest(s)]
    <3>1. CASE s = {}
      BY <3>1
    <3>2. CASE s # {}
      <4>1. g[s] = f[CHOOSE e \in s : TRUE] + part(rest(s))[rest(s)]
        BY <3>2
      <4>2. part(rest(s))[rest(s)] = g[rest(s)]
        BY <2>3, <3>2
      <4> HIDE DEF g, part, rest
      <4> QED BY <3>2, <4>1, <4>2
    <3> QED BY <3>1, <3>2
  <2>5. g = [s \in SUBSET x |-> g[s]]
    OBVIOUS
  <2>6. IsSum(f, x, g)
    <3> HIDE DEF g
    <3> QED BY <2>4, <2>5 DEF IsSum
  <2> QED BY <2>6
<1>2. \A x \in SUBSET S : x \in G
  <2> HIDE DEF G
  <2> QED BY <1>1, BySmallerSets
<1> QED BY <1>2

\* The recursion behind a sum has a solution, so that the sum is what it says.
LEMMA SumIs ==
  ASSUME NEW f, NEW S, IsFiniteSet(S)
  PROVE  \E h : IsSum(f, S, h) /\ SumOf(f, S) = h[S]
<1>1. PICK g : IsSum(f, S, g)
  BY SumExists
<1> QED BY <1>1 DEF IsSum, SumOf, MapThenSumSet, MapThenFoldSet

\* Nothing adds up to nothing.
LEMMA SumEmpty == \A f : SumOf(f, {}) = 0
<1> TAKE f
<1>1. PICK h : IsSum(f, {}, h) /\ SumOf(f, {}) = h[{}]
  BY SumIs, FS_EmptySet
<1> QED BY <1>1 DEF IsSum

\* A sum takes some element first.
LEMMA SumTakesOne ==
  ASSUME NEW f, NEW S, IsFiniteSet(S), S # {}
  PROVE  \E x \in S : SumOf(f, S) = f[x] + SumOf(f, S \ {x})
<1>1. PICK h : IsSum(f, S, h) /\ SumOf(f, S) = h[S]
  BY SumIs
<1> DEFINE e == CHOOSE x \in S : TRUE
           T == S \ {e}
<1>2. SumOf(f, S) = f[e] + h[T]
  BY <1>1 DEF IsSum
<1>3. IsFiniteSet(T)
  BY FS_Subset
<1>4. PICK k : IsSum(f, T, k) /\ SumOf(f, T) = k[T]
  BY <1>3, SumIs
<1>5. IsSum(f, T, [s \in SUBSET T |-> h[s]])
  BY <1>1, SumRestricts
<1>6. k = [s \in SUBSET T |-> h[s]]
  BY <1>3, <1>4, <1>5, SumUnique
<1>7. SumOf(f, T) = h[T]
  BY <1>4, <1>6
<1> QED BY <1>2, <1>7

\* A sum of whole numbers is one.
LEMMA SumIsNat ==
  ASSUME NEW S, IsFiniteSet(S), NEW D, S \subseteq D, NEW f \in [D -> Nat]
  PROVE  \A T \in SUBSET S : SumOf(f, T) \in Nat
<1> DEFINE G == {s \in SUBSET S : SumOf(f, s) \in Nat}
<1>1. ASSUME NEW x \in SUBSET S, \A y \in SUBSET x : y # x => y \in G
      PROVE  x \in G
  <2>1. CASE x = {}
    BY <2>1, SumEmpty
  <2>2. CASE x # {}
    <3>1. IsFiniteSet(x)
      BY FS_Subset
    <3>2. PICK e \in x : SumOf(f, x) = f[e] + SumOf(f, x \ {e})
      BY <2>2, <3>1, SumTakesOne
    <3>3. SumOf(f, x \ {e}) \in Nat
      BY <1>1
    <3>4. f[e] \in Nat
      OBVIOUS
    <3> QED BY <3>2, <3>3, <3>4
  <2> QED BY <2>1, <2>2
<1>2. \A x \in SUBSET S : x \in G
  <2> HIDE DEF G
  <2> QED BY <1>1, BySmallerSets
<1> QED BY <1>2

\* It does not matter in which order the elements are added.
LEMMA SumWithout ==
  ASSUME NEW S, IsFiniteSet(S), NEW D, S \subseteq D, NEW f \in [D -> Nat]
  PROVE  \A T \in SUBSET S : \A x \in T : SumOf(f, T) = f[x] + SumOf(f, T \ {x})
<1> DEFINE good(t) == \A x \in t : SumOf(f, t) = f[x] + SumOf(f, t \ {x})
           G == {t \in SUBSET S : good(t)}
<1>1. ASSUME NEW t \in SUBSET S, \A y \in SUBSET t : y # t => y \in G
      PROVE  t \in G
  <2>1. SUFFICES ASSUME NEW x \in t PROVE SumOf(f, t) = f[x] + SumOf(f, t \ {x})
    OBVIOUS
  <2>2. IsFiniteSet(t)
    BY FS_Subset
  <2>3. PICK e \in t : SumOf(f, t) = f[e] + SumOf(f, t \ {e})
    BY <2>2, SumTakesOne
  <2>4. CASE e = x
    BY <2>3, <2>4
  <2>5. CASE e # x
    <3>1. good(t \ {e}) /\ good(t \ {x})
      BY <1>1
    <3>2. SumOf(f, t \ {e}) = f[x] + SumOf(f, (t \ {e}) \ {x})
      BY <3>1, <2>5
    <3>3. SumOf(f, t \ {x}) = f[e] + SumOf(f, (t \ {x}) \ {e})
      BY <3>1, <2>5
    <3>4. (t \ {x}) \ {e} = (t \ {e}) \ {x}
      OBVIOUS
    <3>5. f[x] \in Nat /\ f[e] \in Nat
      OBVIOUS
    <3>6. SumOf(f, (t \ {e}) \ {x}) \in Nat
      BY SumIsNat
    <3>7. SumOf(f, t \ {x}) = f[e] + SumOf(f, (t \ {e}) \ {x})
      BY <3>3, <3>4
    <3> HIDE DEF good
    <3> QED BY <2>3, <3>2, <3>5, <3>6, <3>7
  <2> QED BY <2>4, <2>5
<1>2. \A t \in SUBSET S : t \in G
  <2> HIDE DEF G
  <2> QED BY <1>1, BySmallerSets
<1> QED BY <1>2

\* More is added to more, over more elements.
LEMMA SumGrows ==
  ASSUME NEW S, IsFiniteSet(S), NEW D, S \subseteq D,
         NEW f \in [D -> Nat], NEW g \in [D -> Nat],
         \A x \in S : f[x] <= g[x]
  PROVE  \A T \in SUBSET S : \A U \in SUBSET T : SumOf(f, U) <= SumOf(g, T)
<1> DEFINE good(t) == \A u \in SUBSET t : SumOf(f, u) <= SumOf(g, t)
           G == {t \in SUBSET S : good(t)}
<1>1. ASSUME NEW t \in SUBSET S, \A y \in SUBSET t : y # t => y \in G
      PROVE  t \in G
  <2>1. SUFFICES ASSUME NEW u \in SUBSET t PROVE SumOf(f, u) <= SumOf(g, t)
    OBVIOUS
  <2>2. CASE t = {}
    <3>1. u = {}
      BY <2>2
    <3>2. SumOf(f, u) = 0 /\ SumOf(g, t) = 0
      BY <2>2, <3>1, SumEmpty
    <3> QED BY <3>2
  <2>3. CASE t # {}
    <3>1. PICK x \in t : TRUE
      BY <2>3
    <3>2. u \ {x} \in SUBSET (t \ {x}) /\ good(t \ {x})
      BY <1>1
    <3>3. SumOf(f, u \ {x}) <= SumOf(g, t \ {x})
      BY <3>2
    <3>4. SumOf(g, t) = g[x] + SumOf(g, t \ {x})
      BY SumWithout
    <3>5. /\ SumOf(f, u \ {x}) \in Nat /\ SumOf(g, t \ {x}) \in Nat
          /\ f[x] \in Nat /\ g[x] \in Nat /\ f[x] <= g[x]
      BY SumIsNat
    <3>6. CASE x \in u
      <4>1. SumOf(f, u) = f[x] + SumOf(f, u \ {x})
        BY <3>6, SumWithout
      <4> HIDE DEF good
      <4> QED BY <3>3, <3>4, <3>5, <4>1
    <3>7. CASE x \notin u
      <4>1. u \ {x} = u
        BY <3>7
      <4> HIDE DEF good
      <4> QED BY <3>3, <3>4, <3>5, <4>1
    <3> QED BY <3>6, <3>7
  <2> QED BY <2>2, <2>3
<1>2. \A t \in SUBSET S : t \in G
  <2> HIDE DEF G
  <2> QED BY <1>1, BySmallerSets
<1> QED BY <1>2

\* Equal terms add up to a multiple of their number.
LEMMA SumOfEqual ==
  ASSUME NEW S, IsFiniteSet(S), NEW c \in Nat, NEW f \in [S -> {c}]
  PROVE  SumOf(f, S) = c * Cardinality(S)
<1> DEFINE good(t) == SumOf(f, t) = c * Cardinality(t)
           G == {t \in SUBSET S : good(t)}
<1>1. ASSUME NEW t \in SUBSET S, \A y \in SUBSET t : y # t => y \in G
      PROVE  t \in G
  <2>1. IsFiniteSet(t)
    BY FS_Subset
  <2>2. CASE t = {}
    BY <2>2, SumEmpty, FS_EmptySet
  <2>3. CASE t # {}
    <3>1. PICK x \in t : TRUE
      BY <2>3
    <3>2. SumOf(f, t \ {x}) = c * Cardinality(t \ {x})
      BY <1>1
    <3>3. f \in [S -> Nat]
      OBVIOUS
    <3>4. SumOf(f, t) = f[x] + SumOf(f, t \ {x})
      BY <3>3, SumWithout
    <3>5. f[x] = c
      OBVIOUS
    <3>6. Cardinality(t \ {x}) = Cardinality(t) - 1
      BY <2>1, FS_RemoveElement
    <3>7. Cardinality(t) \in Nat
      BY <2>1, FS_CardinalityType
    <3>8. c * (Cardinality(t) - 1) = c * Cardinality(t) - c
      BY <3>7
    <3> QED BY <3>2, <3>4, <3>5, <3>6, <3>7, <3>8
  <2> QED BY <2>2, <2>3
<1>2. \A t \in SUBSET S : t \in G
  <2> HIDE DEF G
  <2> QED BY <1>1, BySmallerSets
<1> QED BY <1>2

\* What rounding down takes from one share.
LEMMA RoundedDown ==
  ASSUME NEW a \in Nat, NEW d \in Nat, d > 0
  PROVE  /\ a \div d \in Nat
         /\ d * (a \div d) <= a
         /\ a <= d * (a \div d) + (d - 1)
OBVIOUS

\* The sum of the terms of a list, one by one.
LEMMA AddsUp ==
  ASSUME NEW S, IsFiniteSet(S), NEW f \in [S -> Nat]
  PROVE  \A T \in SUBSET S : \A x \in T : SumOf(f, T) = f[x] + SumOf(f, T \ {x})
<1> SUFFICES ASSUME NEW T \in SUBSET S, NEW x \in T
             PROVE  SumOf(f, T) = f[x] + SumOf(f, T \ {x})
  OBVIOUS
<1> QED BY SumWithout

\* What rounding down takes from all the shares: nothing is given that was not
\* there, and less than one unit of the divisor is lost for each of them.
LEMMA SumRoundedDown ==
  ASSUME NEW S, IsFiniteSet(S), NEW w \in [S -> Nat], NEW d \in Nat, d > 0,
         NEW net \in Nat, NEW f \in [S -> Nat],
         \A x \in S : f[x] = (net * w[x]) \div d
  PROVE  /\ d * SumOf(f, S) <= net * SumOf(w, S)
         /\ net * SumOf(w, S) <= d * SumOf(f, S) + (d - 1) * Cardinality(S)
<1>0. \A T \in SUBSET S : \A x \in T :
        /\ SumOf(f, T) = f[x] + SumOf(f, T \ {x})
        /\ SumOf(w, T) = w[x] + SumOf(w, T \ {x})
  <2>1. ASSUME NEW T \in SUBSET S, NEW x \in T PROVE SumOf(f, T) = f[x] + SumOf(f, T \ {x})
    BY AddsUp
  <2>2. ASSUME NEW T \in SUBSET S, NEW x \in T PROVE SumOf(w, T) = w[x] + SumOf(w, T \ {x})
    BY AddsUp
  <2> QED BY <2>1, <2>2
<1> DEFINE good(t) == /\ d * SumOf(f, t) <= net * SumOf(w, t)
                      /\ net * SumOf(w, t) <= d * SumOf(f, t) + (d - 1) * Cardinality(t)
           G == {t \in SUBSET S : good(t)}
<1>1. ASSUME NEW t \in SUBSET S, \A y \in SUBSET t : y # t => y \in G
      PROVE  t \in G
  <2>1. IsFiniteSet(t)
    BY FS_Subset
  <2>2. CASE t = {}
    <3>1. SumOf(f, t) = 0 /\ SumOf(w, t) = 0 /\ Cardinality(t) = 0
      BY <2>2, SumEmpty, FS_EmptySet
    <3>2. good(t)
      BY <3>1
    <3> QED BY <3>2
  <2>3. CASE t # {}
    <3>1. PICK x \in t : TRUE
      BY <2>3
    <3> DEFINE F == SumOf(f, t \ {x})
               W == SumOf(w, t \ {x})
               n == Cardinality(t \ {x})
    <3>2. good(t \ {x})
      BY <1>1
    <3>3. SumOf(f, t) = f[x] + F /\ SumOf(w, t) = w[x] + W
      BY <1>0
    <3>4. F \in Nat /\ W \in Nat /\ f[x] \in Nat /\ w[x] \in Nat
      BY SumIsNat
    <3>5. IsFiniteSet(t \ {x}) /\ n = Cardinality(t) - 1
      BY <2>1, FS_RemoveElement
    <3>6. Cardinality(t) \in Nat /\ n \in Nat
      BY <2>1, <3>5, FS_CardinalityType
    <3>7. n \in Nat /\ Cardinality(t) = n + 1
      BY <3>5, <3>6
    <3>8. net * w[x] \in Nat
      BY <3>4
    <3>9. d * f[x] <= net * w[x] /\ net * w[x] <= d * f[x] + (d - 1)
      BY <3>8, RoundedDown
    <3>10. d * F <= net * W /\ net * W <= d * F + (d - 1) * n
      BY <3>2
    <3> HIDE DEF F, W, n, G, good
    <3>11. d * (f[x] + F) = d * f[x] + d * F
      BY <3>4
    <3>12. net * (w[x] + W) = net * w[x] + net * W
      BY <3>4
    <3>13. (d - 1) * (n + 1) = (d - 1) * n + (d - 1)
      BY <3>7
    <3>14. /\ d * f[x] \in Nat /\ d * F \in Nat /\ net * W \in Nat /\ (d - 1) * n \in Nat
      BY <3>4, <3>7
    <3>15. /\ d * f[x] + d * F <= net * w[x] + net * W
           /\ net * w[x] + net * W <= d * f[x] + d * F + ((d - 1) * n + (d - 1))
      BY <3>8, <3>9, <3>10, <3>14
    <3>16. good(t)
      BY <3>3, <3>7, <3>11, <3>12, <3>13, <3>15 DEF good
    <3> QED BY <3>16 DEF G
  <2> QED BY <2>2, <2>3
<1>2. \A t \in SUBSET S : t \in G
  <2> HIDE DEF G
  <2> QED BY <1>1, BySmallerSets
<1> QED BY <1>2

-------------------------------------------------------------------------------
(* How a net amount is divided.                                             *)

\* The quotient is the only number with a remainder below the divisor.
LEMMA QuotientIs ==
  ASSUME NEW a \in Nat, NEW d \in Nat, d > 0, NEW q \in Nat, d * q <= a, a < d * q + d
  PROVE  a \div d = q
<1> DEFINE p == a \div d
<1>1. p \in Nat /\ d * p <= a /\ a < d * p + d
  BY RoundedDown
<1> HIDE DEF p
<1>2. ASSUME p < q PROVE FALSE
  <2>1. p + 1 <= q
    BY <1>1, <1>2
  <2>2. d * (p + 1) <= d * q
    BY <2>1, <1>1
  <2>3. d * (p + 1) = d * p + d
    BY <1>1
  <2>4. d * p \in Nat /\ d * q \in Nat
    BY <1>1
  <2> QED BY <1>1, <2>2, <2>3, <2>4
<1>3. ASSUME q < p PROVE FALSE
  <2>1. q + 1 <= p
    BY <1>1, <1>3
  <2>2. d * (q + 1) <= d * p
    BY <2>1, <1>1
  <2>3. d * (q + 1) = d * q + d
    OBVIOUS
  <2>4. d * p \in Nat /\ d * q \in Nat
    BY <1>1
  <2> QED BY <1>1, <2>2, <2>3, <2>4
<1>4. p = q
  BY <1>1, <1>2, <1>3
<1> QED BY <1>4 DEF p

\* Multiplying and dividing keep the order.
LEMMA ProductsGrow ==
  ASSUME NEW c \in Nat, NEW a \in Nat, NEW b \in Nat, a <= b
  PROVE  c * a <= c * b
OBVIOUS

LEMMA QuotientsGrow ==
  ASSUME NEW a \in Nat, NEW b \in Nat, NEW d \in Nat, d > 0, a <= b
  PROVE  a \div d <= b \div d
OBVIOUS

\* What a request that is not refused looks like.
LEMMA AcceptedRequest ==
  ASSUME NEW request \in accepted
  PROVE  /\ request.netAmount \in Nat
         /\ \E n \in Nat : n > 0 /\ DOMAIN request.recipients = 1..n
         /\ IsFiniteSet(DOMAIN request.recipients)
         /\ Cardinality(DOMAIN request.recipients) \in Nat \ {0}
         /\ \A i \in DOMAIN request.recipients :
              /\ request.recipients[i].amount \in Nat \cup {Unset}
              /\ request.recipients[i].weight \in (Nat \ {0}) \cup {Unset}
         /\ prepares(request)
<1>1. request \in SplitRequests /\ prepares(request)
  BY DEF accepted
<1>2. /\ request.netAmount \in Nat
      /\ request.recipients \in UNION {RecipientLists(n) : n \in 0..MaxRecipients}
  BY <1>1, SplitBounds DEF SplitRequests
<1>3. PICK n \in 0..MaxRecipients : request.recipients \in RecipientLists(n)
  BY <1>2
<1>4. n \in Nat /\ DOMAIN request.recipients = 1..n
  BY <1>3, SplitBounds DEF RecipientLists
<1>5. n > 0
  BY <1>1, <1>4 DEF prepares
<1>6. IsFiniteSet(1..n) /\ Cardinality(1..n) = n
  BY <1>4, <1>5, FS_Interval
<1>7. ASSUME NEW i \in DOMAIN request.recipients
      PROVE  /\ request.recipients[i].amount \in Nat \cup {Unset}
             /\ request.recipients[i].weight \in (Nat \ {0}) \cup {Unset}
  <2>1. request.recipients[i] \in [characterId : 1..n,
                                   amount      : 0..MaxNet \cup {Unset},
                                   weight      : 1..MaxWeight \cup {Unset}]
    BY <1>3, <1>7 DEF RecipientLists
  <2> QED BY <2>1, SplitBounds
<1> QED BY <1>1, <1>2, <1>4, <1>5, <1>6, <1>7

\* A weight that was left out counts as 1; none is zero.
LEMMA Weights ==
  ASSUME NEW request \in accepted
  PROVE  /\ weightsOf(request.recipients) \in [DOMAIN request.recipients -> Nat]
         /\ \A i \in DOMAIN request.recipients : weightsOf(request.recipients)[i] > 0
BY AcceptedRequest DEF weightsOf

\* The division adds up its lists in the same way.
LEMMA SumOver == \A f : sumOver(f) = SumOf(f, DOMAIN f)
BY DEF sumOver, SumOf

\* The weights of a request add up to something to divide by.
LEMMA WeightsAddUp ==
  ASSUME NEW request \in accepted, ~hasExplicitAmounts(request.recipients),
         request.allocationMode = "weight"
  PROVE  /\ sumOver(weightsOf(request.recipients)) \in Nat
         /\ sumOver(weightsOf(request.recipients)) > 0
         /\ prepareRecipients(request) =
              [i \in DOMAIN request.recipients |->
                 (request.netAmount * weightsOf(request.recipients)[i])
                   \div sumOver(weightsOf(request.recipients))]
<1> DEFINE w == weightsOf(request.recipients)
           S == DOMAIN request.recipients
<1>1. sumOver(w) > 0
  BY AcceptedRequest DEF prepares
<1>2. sumOver(w) \in Nat
  <2>1. w \in [S -> Nat] /\ DOMAIN w = S /\ IsFiniteSet(S)
    BY Weights, AcceptedRequest
  <2>2. SumOf(w, S) \in Nat
    <3> HIDE DEF w, S
    <3> QED BY <2>1, SumIsNat
  <2> QED BY <2>1, <2>2, SumOver
<1>3. prepareRecipients(request) = buildWeightedRecipients(request.recipients, request.netAmount)
  BY DEF prepareRecipients
<1> QED BY <1>1, <1>2, <1>3 DEF buildWeightedRecipients

\* Without weights and amounts, the parts are equal.
LEMMA EqualShares ==
  ASSUME NEW request \in accepted, ~hasExplicitAmounts(request.recipients),
         request.allocationMode # "weight"
  PROVE  prepareRecipients(request) = 
           [i \in DOMAIN request.recipients |->
              request.netAmount \div Cardinality(DOMAIN request.recipients)]
BY DEF prepareRecipients, buildEqualRecipients

\* No settle request distributes more than its net amount, and what is left is
\* less than one unit for each recipient, for lists and amounts of any size.
LEMMA DivisionIsExact == DivisionExhaustsNet
<1> SUFFICES ASSUME NEW request \in accepted
             PROVE  /\ leftOver(request) >= 0
                    /\ leftOver(request) < Cardinality(DOMAIN request.recipients)
  BY DEF DivisionExhaustsNet
<1> DEFINE S == DOMAIN request.recipients
           n == Cardinality(S)
           net == request.netAmount
           shares == prepareRecipients(request)
<1>1. net \in Nat /\ IsFiniteSet(S) /\ n \in Nat /\ n > 0
  BY AcceptedRequest
<1>2. CASE hasExplicitAmounts(request.recipients)
  <2>1. shares = explicitAmounts(request.recipients)
    BY <1>2 DEF prepareRecipients
  <2>2. sumOver(shares) = net
    BY <1>2, <2>1, AcceptedRequest DEF prepares
  <2>3. leftOver(request) = 0
    BY <1>1, <2>2 DEF leftOver
  <2> QED BY <1>1, <2>3
<1>3. CASE ~hasExplicitAmounts(request.recipients) /\ request.allocationMode = "weight"
  <2> DEFINE w == weightsOf(request.recipients)
             d == sumOver(w)
  <2>1. d \in Nat /\ d > 0 /\ shares = [i \in S |-> (net * w[i]) \div d]
    BY <1>3, WeightsAddUp
  <2>2. w \in [S -> Nat] /\ DOMAIN w = S
    BY Weights
  <2>3. d = SumOf(w, S)
    BY <2>2, SumOver
  <2> HIDE DEF w, d
  <2> HIDE DEF shares, n, net, S
  <2>4. ASSUME NEW i \in S PROVE shares[i] = (net * w[i]) \div d /\ shares[i] \in Nat
    <3>1. net * w[i] \in Nat
      BY <1>1, <2>2
    <3> QED BY <2>1, <3>1, RoundedDown
  <2>5. shares \in [S -> Nat] /\ DOMAIN shares = S
    BY <2>1, <2>4
  <2>6. SumOf(shares, S) \in Nat
    BY <1>1, <2>5, SumIsNat
  <2>7. /\ d * SumOf(shares, S) <= net * SumOf(w, S)
        /\ net * SumOf(w, S) <= d * SumOf(shares, S) + (d - 1) * Cardinality(S)
    BY <1>1, <2>1, <2>2, <2>4, <2>5, SumRoundedDown
  <2> DEFINE F == SumOf(shares, S)
  <2>8. d * F <= d * net /\ d * net <= d * F + (d - 1) * n
    <3>1. net * SumOf(w, S) = d * net
      BY <1>1, <2>1, <2>3
    <3> QED BY <2>7, <3>1 DEF n
  <2>9. F \in Nat
    BY <2>6
  <2>10. sumOver(shares) = F
    BY <2>5, SumOver
  <2> HIDE DEF F
  <2>11. F <= net
    <3>1. SUFFICES ASSUME net < F PROVE FALSE
      BY <1>1, <2>9
    <3>2. net + 1 <= F
      BY <1>1, <2>9, <3>1
    <3>3. d * (net + 1) <= d * F
      BY <1>1, <2>1, <2>9, <3>2, ProductsGrow
    <3>4. d * (net + 1) = d * net + d
      BY <1>1, <2>1
    <3>5. d * net \in Nat /\ d * F \in Nat
      BY <1>1, <2>1, <2>9
    <3> QED BY <2>1, <2>8, <3>3, <3>4, <3>5
  <2>12. net < F + n
    <3>1. SUFFICES ASSUME F + n <= net PROVE FALSE
      BY <1>1, <2>9
    <3>2. d * (F + n) <= d * net
      BY <1>1, <2>1, <2>9, <3>1, ProductsGrow
    <3>3. d * (F + n) = d * F + d * n
      BY <1>1, <2>1, <2>9
    <3>4. (d - 1) * n = d * n - n
      BY <1>1, <2>1
    <3>5. d * net \in Nat /\ d * F \in Nat /\ d * n \in Nat
      BY <1>1, <2>1, <2>9
    <3> QED BY <1>1, <2>8, <3>2, <3>3, <3>4, <3>5
  <2>13. leftOver(request) = net - F
    BY <2>10 DEF leftOver, shares, net
  <2>14. leftOver(request) >= 0 /\ leftOver(request) < n
    BY <1>1, <2>9, <2>11, <2>12, <2>13
  <2> QED BY <2>14 DEF n, S
<1>4. CASE ~hasExplicitAmounts(request.recipients) /\ request.allocationMode # "weight"
  <2> DEFINE c == net \div n
  <2>1. c \in Nat /\ n * c <= net /\ net <= n * c + (n - 1)
    BY <1>1, RoundedDown
  <2>2. shares = [i \in S |-> c]
    BY <1>4, EqualShares
  <2> HIDE DEF shares, c
  <2>3. shares \in [S -> {c}] /\ DOMAIN shares = S
    BY <2>2
  <2>4. SumOf(shares, S) = c * n
    BY <1>1, <2>1, <2>3, SumOfEqual
  <2>5. sumOver(shares) = c * n
    BY <2>3, <2>4, SumOver
  <2>6. c * n = n * c /\ n * c \in Nat
    BY <1>1, <2>1
  <2>7. leftOver(request) = net - c * n
    BY <2>5 DEF leftOver, shares
  <2> HIDE DEF n, net
  <2>8. leftOver(request) >= 0 /\ leftOver(request) < n
    BY <1>1, <2>1, <2>6, <2>7
  <2> QED BY <2>8 DEF n
<1> QED BY <1>2, <1>3, <1>4

\* A heavier recipient does not receive less.
LEMMA SharesAreOrdered ==
  ASSUME NEW request \in accepted, ~hasExplicitAmounts(request.recipients),
         NEW i \in DOMAIN request.recipients, NEW j \in DOMAIN request.recipients,
         weightsOf(request.recipients)[i] <= weightsOf(request.recipients)[j]
  PROVE  prepareRecipients(request)[i] <= prepareRecipients(request)[j]
<1> DEFINE S == DOMAIN request.recipients
           net == request.netAmount
           w == weightsOf(request.recipients)
           d == sumOver(w)
           shares == prepareRecipients(request)
<1>1. net \in Nat /\ Cardinality(S) \in Nat \ {0} /\ w \in [S -> Nat]
  BY AcceptedRequest, Weights
<1>2. CASE request.allocationMode = "weight"
  <2>1. d \in Nat /\ d > 0 /\ shares = [k \in S |-> (net * w[k]) \div d]
    BY <1>2, WeightsAddUp
  <2> HIDE DEF w, d, shares
  <2>2. shares[i] = (net * w[i]) \div d /\ shares[j] = (net * w[j]) \div d
    BY <2>1
  <2>3. w[i] \in Nat /\ w[j] \in Nat /\ w[i] <= w[j]
    BY <1>1 DEF w
  <2>4. net * w[i] <= net * w[j] /\ net * w[i] \in Nat /\ net * w[j] \in Nat
    BY <1>1, <2>3, ProductsGrow
  <2>5. shares[i] <= shares[j]
    BY <2>1, <2>2, <2>4, QuotientsGrow
  <2> QED BY <2>5 DEF shares
<1>3. CASE request.allocationMode # "weight"
  <2>1. shares = [k \in S |-> net \div Cardinality(S)]
    BY <1>3, EqualShares
  <2>2. shares[i] = net \div Cardinality(S) /\ shares[j] = net \div Cardinality(S)
    BY <2>1
  <2>3. net \div Cardinality(S) \in Nat
    BY <1>1, RoundedDown
  <2> HIDE DEF shares
  <2>4. shares[i] <= shares[j]
    BY <2>2, <2>3
  <2> QED BY <2>4 DEF shares
<1> QED BY <1>2, <1>3

\* Recipients of one weight are treated like those of an equal split.
LEMMA SameWeightSameShare ==
  ASSUME NEW request \in accepted, ~hasExplicitAmounts(request.recipients),
         NEW c, \A i \in DOMAIN request.recipients : weightsOf(request.recipients)[i] = c
  PROVE  prepareRecipients(request) =
           buildEqualRecipients(request.recipients, request.netAmount)
<1> DEFINE S == DOMAIN request.recipients
           n == Cardinality(S)
           net == request.netAmount
           w == weightsOf(request.recipients)
           d == sumOver(w)
           shares == prepareRecipients(request)
           q == net \div n
<1>1. net \in Nat /\ IsFiniteSet(S) /\ n \in Nat /\ n > 0 /\ w \in [S -> Nat] /\ DOMAIN w = S
  BY AcceptedRequest, Weights
<1>2. c \in Nat /\ c > 0
  <2>1. PICK i \in S : TRUE
    BY AcceptedRequest
  <2>2. w[i] \in Nat /\ w[i] > 0 /\ w[i] = c
    BY <2>1, Weights
  <2> QED BY <2>2
<1>3. CASE request.allocationMode # "weight"
  BY <1>3, EqualShares DEF buildEqualRecipients
<1>4. CASE request.allocationMode = "weight"
  <2>1. d \in Nat /\ d > 0 /\ shares = [k \in S |-> (net * w[k]) \div d]
    BY <1>4, WeightsAddUp
  <2>2. w \in [S -> {c}]
    BY <1>1
  <2>3. SumOf(w, S) = c * n
    <3> HIDE DEF w, S
    <3> QED BY <1>1, <1>2, <2>2, SumOfEqual DEF n
  <2>4. d = c * n
    BY <1>1, <2>3, SumOver
  <2>5. q \in Nat /\ n * q <= net /\ net <= n * q + (n - 1)
    BY <1>1, RoundedDown
  <2> HIDE DEF n, net, q, d
  <2>6. (net * c) \div d = q
    <3>1. c * (n * q) <= c * net
      <4>1. n * q \in Nat
        BY <1>1, <2>5
      <4> QED BY <1>1, <1>2, <2>5, <4>1, ProductsGrow
    <3>2. c * (net + 1) <= c * (n * q + n)
      <4>1. n * q + n \in Nat /\ net + 1 \in Nat /\ net + 1 <= n * q + n
        BY <1>1, <2>5
      <4> QED BY <1>2, <4>1, ProductsGrow
    <3>3. c * (net + 1) = c * net + c
      BY <1>1, <1>2
    <3>4. c * (n * q) = (c * n) * q
      BY <1>1, <1>2, <2>5
    <3>5. c * (n * q + n) = (c * n) * q + c * n
      BY <1>1, <1>2, <2>5
    <3>6. c * net = net * c /\ net * c \in Nat /\ d * q \in Nat
      BY <1>1, <1>2, <2>1, <2>5
    <3>7. d * q <= net * c /\ net * c < d * q + d
      BY <1>2, <2>1, <2>4, <3>1, <3>2, <3>3, <3>4, <3>5, <3>6
    <3> QED BY <2>1, <2>5, <3>6, <3>7, QuotientIs
  <2>7. \A k \in S : (net * w[k]) \div d = q
    BY <2>6
  <2> HIDE DEF w
  <2>8. shares = [k \in S |-> q]
    BY <2>1, <2>7
  <2> QED BY <2>8 DEF buildEqualRecipients, q, n, net
<1> QED BY <1>3, <1>4

\* The shares follow the weights, for lists and amounts of any size.
LEMMA DivisionIsFair == SharesFollowWeights
<1> SUFFICES ASSUME NEW request \in accepted, ~hasExplicitAmounts(request.recipients)
             PROVE  LET shares  == prepareRecipients(request)
                        weights == [i \in DOMAIN shares |->
                                      IF request.recipients[i].weight = Unset
                                      THEN 1 ELSE request.recipients[i].weight]
                        equal   == prepareRecipients(
                                     [request EXCEPT !.allocationMode = "equal"])
                    IN  /\ \A i, j \in DOMAIN shares :
                             weights[i] <= weights[j] => shares[i] <= shares[j]
                        /\ Cardinality({weights[i] : i \in DOMAIN weights}) = 1
                             => shares = equal
  BY DEF SharesFollowWeights
<1> DEFINE S == DOMAIN request.recipients
           w == weightsOf(request.recipients)
           shares == prepareRecipients(request)
           equal == prepareRecipients([request EXCEPT !.allocationMode = "equal"])
<1>1. DOMAIN shares = S
  <2>1. CASE request.allocationMode = "weight"
    BY <2>1, WeightsAddUp
  <2>2. CASE request.allocationMode # "weight"
    BY <2>2, EqualShares
  <2> QED BY <2>1, <2>2
<1>2. w = [i \in DOMAIN shares |-> IF request.recipients[i].weight = Unset
                                   THEN 1 ELSE request.recipients[i].weight]
  BY <1>1 DEF weightsOf
<1>3. ASSUME NEW i \in S, NEW j \in S, w[i] <= w[j] PROVE shares[i] <= shares[j]
  BY <1>3, SharesAreOrdered
<1>4. equal = buildEqualRecipients(request.recipients, request.netAmount)
  <2>1. request \in SplitRequests
    BY DEF accepted
  <2> DEFINE other == [request EXCEPT !.allocationMode = "equal"]
  <2>2. /\ other.recipients = request.recipients
        /\ other.netAmount = request.netAmount
        /\ other.allocationMode = "equal"
    BY <2>1 DEF SplitRequests
  <2> HIDE DEF other
  <2>3. prepareRecipients(other) = buildEqualRecipients(request.recipients, request.netAmount)
    BY <2>2 DEF prepareRecipients
  <2> QED BY <2>3 DEF other
<1>5. ASSUME Cardinality({w[i] : i \in S}) = 1 PROVE shares = equal
  <2>1. IsFiniteSet({w[i] : i \in S})
    <3> DEFINE T == {w[i] : i \in S}
    <3>1. w \in [S -> T]
      BY Weights
    <3>2. w \in Surjection(S, T)
      BY <3>1 DEF Surjection
    <3>3. IsFiniteSet(S)
      BY AcceptedRequest
    <3> QED BY <3>2, <3>3, FS_Surjection
  <2>2. PICK c : {w[i] : i \in S} = {c}
    BY <1>5, <2>1, FS_Singleton
  <2>3. \A i \in S : w[i] = c
    BY <2>2
  <2> QED BY <1>4, <2>3, SameWeightSameShare
<1>6. DOMAIN w = S
  BY DEF weightsOf
<1> HIDE DEF w, shares, equal
<1>7. /\ \A i, j \in S : w[i] <= w[j] => shares[i] <= shares[j]
      /\ Cardinality({w[i] : i \in DOMAIN w}) = 1 => shares = equal
  BY <1>3, <1>5, <1>6
<1> QED BY <1>1, <1>2, <1>7 DEF shares, equal

\* An event that the event page offers to settle is settled for its net amount,
\* but for less than one unit for each recipient, and never for more, whatever
\* the number of recipients and the amounts and weights the request combines.
THEOREM NobodyIsOverpaid == Spec => []SettledForItsNet
<1>1. SettledForItsNet
  BY DivisionIsExact DEF SettledForItsNet
<1> QED BY <1>1, PTL

\* Its shares follow the weights, for any recipients and weights: a heavier one
\* never receives less, and recipients of one weight are treated like equals.
THEOREM HeavierIsNotWorse == Spec => []SettledByWeight
<1>1. SettledByWeight
  BY DivisionIsFair DEF SettledByWeight
<1> QED BY <1>1, PTL

-------------------------------------------------------------------------------
(* What is offered for disbursement.                                        *)

\* What Math.max(0, n) gives.
LEMMA LargerOfTwo ==
  ASSUME NEW n \in Int
  PROVE  Max({0, n}) = IF n > 0 THEN n ELSE 0
<1> DEFINE m == IF n > 0 THEN n ELSE 0
<1>1. m \in {0, n} /\ \A y \in {0, n} : m >= y
  OBVIOUS
<1>2. \A x \in {0, n} : (\A y \in {0, n} : x >= y) => x = m
  BY <1>1
<1> QED BY <1>1, <1>2 DEF Max

\* What is left of a share, from its only live claim.
LEMMA LeftOfShare ==
  ASSUME IInv, NEW a \in Allocation
  PROVE  /\ claimableAmount(a) \in Nat
         /\ claimableAmount(a) <= AmountOf[a]
         /\ activeClaims(claimStatus, a) = {} => claimableAmount(a) = AmountOf[a]
         /\ \A c \in activeClaims(claimStatus, a) :
              claimableAmount(a) > 0 <=> ClaimedOf[c] < AmountOf[a]
<1> DEFINE active == activeClaims(claimStatus, a)
<1>1. activeClaimAmount(a) = SumOf(ClaimedOf, active)
  BY DEF activeClaimAmount, SumOf
<1>2. AmountOf[a] \in Nat /\ active \subseteq Claim
  BY Amounts DEF activeClaims
<1>3. CASE active = {}
  <2>1. activeClaimAmount(a) = 0
    BY <1>1, <1>3, SumEmpty
  <2>2. claimableAmount(a) = AmountOf[a]
    BY <1>2, <2>1, LargerOfTwo DEF claimableAmount
  <2> QED BY <1>2, <1>3, <2>2
<1>4. CASE active # {}
  <2>1. PICK c \in active : TRUE
    BY <1>4
  <2>2. active = {c}
    BY <2>1 DEF activeClaims, IInv, Inv, OneActiveClaim, TypeOK, Absent, ClaimStatus
  <2>3. ClaimedOf[c] \in Nat
    BY <1>2, <2>1, Amounts
  <2>4. activeClaimAmount(a) = ClaimedOf[c]
    <3>1. IsFiniteSet({c}) /\ {c} # {}
      BY FS_Singleton
    <3>2. PICK x \in {c} : SumOf(ClaimedOf, {c}) = ClaimedOf[x] + SumOf(ClaimedOf, {c} \ {x})
      BY <3>1, SumTakesOne
    <3>3. x = c /\ {c} \ {x} = {}
      OBVIOUS
    <3>4. SumOf(ClaimedOf, {c}) = ClaimedOf[c]
      BY <2>3, <3>2, <3>3, SumEmpty
    <3> QED BY <1>1, <2>2, <3>4
  <2>5. claimableAmount(a) = IF AmountOf[a] - ClaimedOf[c] > 0
                             THEN AmountOf[a] - ClaimedOf[c] ELSE 0
    BY <1>2, <2>3, <2>4, LargerOfTwo DEF claimableAmount
  <2> QED BY <1>2, <2>2, <2>3, <2>5
<1> QED BY <1>3, <1>4

\* What is offered is unclaimed and worth something, or claimed in part.
LEMMA OfferIsOpenOrPart ==
  ASSUME IInv, NEW s \in Settlement
  PROVE  offeredForDisbursement(s) =
           {a \in listBySettlement(allocationStatus, s) : claimable(a) /\ AmountOf[a] > 0}
           \cup
           {a \in offeredForDisbursement(s) :
              \E c \in activeClaims(claimStatus, a) : ClaimedOf[c] < AmountOf[a]}
<1> DEFINE open == {a \in listBySettlement(allocationStatus, s) :
                      claimable(a) /\ AmountOf[a] > 0}
           part == {a \in offeredForDisbursement(s) :
                      \E c \in activeClaims(claimStatus, a) : ClaimedOf[c] < AmountOf[a]}
<1>1. ASSUME NEW a \in offeredForDisbursement(s) PROVE a \in open \cup part
  <2>1. /\ a \in Allocation /\ SettlementOf[a] = s /\ unpaid(s)
        /\ allocationStatus[a] \in {"pending", "claimed"} /\ claimableAmount(a) > 0
    BY DEF offeredForDisbursement, listDisburseableRows
  <2>2. CASE activeClaims(claimStatus, a) # {}
    BY <2>1, <2>2, LeftOfShare
  <2>3. CASE activeClaims(claimStatus, a) = {}
    <3>1. AmountOf[a] > 0
      BY <2>1, <2>3, LeftOfShare
    <3>2. allocationStatus[a] = "pending"
      BY <2>1, <2>3 DEF IInv, Inv, AllocationSummarisesClaims, activeClaims
    <3>3. claimable(a)
      BY <2>1, <2>3, <3>2 DEF claimable, unpaid
    <3> QED BY <2>1, <3>1, <3>2, <3>3 DEF listBySettlement
  <2> QED BY <2>2, <2>3
<1>2. ASSUME NEW a \in open PROVE a \in offeredForDisbursement(s)
  <2>1. a \in Allocation /\ SettlementOf[a] = s /\ claimable(a) /\ AmountOf[a] > 0
    BY DEF listBySettlement
  <2>2. /\ allocationStatus[a] = "pending" /\ activeClaims(claimStatus, a) = {}
        /\ settlementStatus[s] \notin {"cancelled", "paid"}
    BY <2>1 DEF claimable
  <2>3. unpaid(s)
    BY <2>1, <2>2 DEF unpaid, IInv, Inv, ParentsExist, exists, TypeOK, Absent, SettlementStatus
  <2>4. claimableAmount(a) > 0
    BY <2>1, <2>2, LeftOfShare
  <2> QED BY <2>1, <2>2, <2>3, <2>4 DEF offeredForDisbursement, listDisburseableRows
<1>3. part \subseteq offeredForDisbursement(s)
  OBVIOUS
<1> HIDE DEF open, part
<1>4. offeredForDisbursement(s) = open \cup part
  BY <1>1, <1>2, <1>3
<1> QED BY <1>4 DEF open, part

\* The dashboard counts a settlement with an unclaimed share in one group.
LEMMA OfferIsCountedOnce ==
  ASSUME NEW s \in Settlement, NEW a \in listBySettlement(allocationStatus, s), claimable(a), IInv
  PROVE  disbursementInProgress(s) # disbursementNotStarted(s)
<1>1. SettlementOf[a] = s /\ a \in Allocation /\ allocationStatus[a] = "pending"
      /\ settlementStatus[s] \notin {"cancelled", "paid"} /\ ~hasActiveClaim(a)
  BY DEF claimable, listBySettlement, hasActiveClaim
<1>2. unpaid(s)
  BY <1>1 DEF unpaid, IInv, Inv, ParentsExist, exists, TypeOK, Absent, SettlementStatus
<1> QED BY <1>1, <1>2 DEF disbursementInProgress, disbursementNotStarted

\* A settlement offers no more than the shares that are listed for it.
LEMMA OfferedAmount ==
  ASSUME IInv, NEW s \in Settlement, IsFiniteSet({a \in Allocation : SettlementOf[a] = s})
  PROVE  MapThenSumSet(claimableAmount, offeredForDisbursement(s))
           <= total(listDisburseableRows(s))
<1> DEFINE S == {a \in Allocation : SettlementOf[a] = s}
           T == listDisburseableRows(s)
           U == offeredForDisbursement(s)
           left == [a \in Allocation |-> claimableAmount(a)]
<1>1. T \in SUBSET S /\ U \in SUBSET T /\ S \subseteq Allocation
  BY DEF listDisburseableRows, offeredForDisbursement
<1>2. IsFiniteSet(U)
  BY <1>1, FS_Subset
<1>3. left \in [Allocation -> Nat] /\ AmountOf \in [Allocation -> Nat]
  BY LeftOfShare, Amounts
<1>4. \A x \in S : left[x] <= AmountOf[x]
  BY LeftOfShare
<1>5. MapThenSumSet(claimableAmount, U) = SumOf(left, U)
  <2>1. PICK g : IsSum(left, U, g)
    BY <1>2, SumExists
  <2>2. ASSUME NEW x \in U PROVE left[x] = claimableAmount(x)
    BY <1>1
  <2> DEFINE Q(h) == h = [t \in SUBSET U |->
                            IF t = {} THEN 0
                            ELSE claimableAmount(CHOOSE x \in t : TRUE)
                                   + h[t \ {CHOOSE x \in t : TRUE}]]
  <2>3. ASSUME NEW h PROVE IsSum(left, U, h) <=> Q(h)
    <3>1. ASSUME NEW t \in SUBSET U, t # {}
          PROVE  left[CHOOSE x \in t : TRUE] = claimableAmount(CHOOSE x \in t : TRUE)
      BY <2>2, <3>1
    <3> HIDE DEF left, U
    <3> QED BY <3>1 DEF IsSum
  <2>4. \E h : Q(h) /\ MapThenSumSet(claimableAmount, U) = h[U]
    <3> HIDE DEF left, U
    <3>1. Q(g)
      BY <2>1, <2>3
    <3> QED BY <3>1 DEF MapThenSumSet, MapThenFoldSet
  <2>5. PICK h : Q(h) /\ MapThenSumSet(claimableAmount, U) = h[U]
    BY <2>4
  <2>6. PICK k : IsSum(left, U, k) /\ SumOf(left, U) = k[U]
    BY <1>2, SumIs
  <2>7. IsSum(left, U, h)
    BY <2>3, <2>5
  <2> HIDE DEF left, U, Q
  <2>8. h = k
    BY <1>2, <2>6, <2>7, SumUnique
  <2> QED BY <2>5, <2>6, <2>8
<1>6. SumOf(left, U) <= SumOf(AmountOf, T)
  <2> HIDE DEF left, U, T
  <2>1. \A t \in SUBSET S : \A u \in SUBSET t : SumOf(left, u) <= SumOf(AmountOf, t)
    <3> HIDE DEF S
    <3>1. IsFiniteSet(S)
      BY DEF S
    <3> QED BY <1>1, <1>3, <1>4, <3>1, SumGrows
  <2> HIDE DEF S
  <2> QED BY <1>1, <2>1
<1>7. total(T) = SumOf(AmountOf, T)
  BY DEF total, SumOf
<1> QED BY <1>5, <1>6, <1>7

\* What is offered for disbursement is what can be claimed and what a claim for
\* less than the share left, in every state of a ledger whose settlements have
\* finitely many allocations; the dashboard counts such a settlement once, and
\* the list of settlements shows no more for it than its workspace.
THEOREM OffersAddUp ==
  ASSUME \A s \in Settlement : IsFiniteSet({a \in Allocation : SettlementOf[a] = s})
  PROVE  Spec => []DisbursementOffersAddUp
<1>1. ASSUME IInv PROVE DisbursementOffersAddUp
  <2>1. ASSUME NEW s \in Settlement, s \in DOMAIN DisburseableEventSummaries
        PROVE  DisburseableEventSummaries[s].totalAmount <=
                 SettlementDisbursementWorkspace(s).totalAmount
    <3>1. DisburseableEventSummaries[s].totalAmount =
            MapThenSumSet(claimableAmount, offeredForDisbursement(s))
      BY <2>1 DEF DisburseableEventSummaries
    <3>2. SettlementDisbursementWorkspace(s).totalAmount = total(listDisburseableRows(s))
      BY DEF SettlementDisbursementWorkspace
    <3> QED BY <1>1, <3>1, <3>2, OfferedAmount
  <2>2. ASSUME NEW s \in Settlement
        PROVE  {a \in listBySettlement(allocationStatus, s) :
                  claimable(a) /\ AmountOf[a] > 0} # {}
                 => disbursementInProgress(s) # disbursementNotStarted(s)
    BY <1>1, OfferIsCountedOnce
  <2> QED BY <1>1, <2>1, <2>2, OfferIsOpenOrPart DEF DisbursementOffersAddUp
<1> QED BY <1>1, LedgerInvariant, PTL
===============================================================================
