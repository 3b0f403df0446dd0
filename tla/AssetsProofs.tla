------------------------------ MODULE AssetsProofs ------------------------------
(***************************************************************************)
(* Proofs about Assets, for any number of assets, records, organizations   *)
(* and overlapping requests: types, controlled exposure, and, where the    *)
(* creations, the merges and the edits do not overlap one another, that a  *)
(* merged record always leads to one that is not merged.                   *)
(***************************************************************************)
EXTENDS Assets, FiniteSetTheorems, TLAPS

Row == [status : Status \cup {"absent"}, canonical : Asset \cup {NoAsset},
        name : Name, game : Game, org : Organization \cup {Global}]

Trusting == {"recompute", "evidence", "trust", "promote"}
Merging == {"merge", "mark", "redirect", "list"}
Changing == Merging \cup {"insert", "alias", "edit"}
Writing == {"promote", "redirect", "edit"}
Trust == {"active", "org_verified", "candidate"}

Task == [at : Trusting \cup Changing \cup {"idle"}, asset : Asset \cup {NoAsset},
         target : Asset \cup {NoAsset}, status : Status \cup {"absent"},
         names : SUBSET Name, row : Row]

\* What a request carries to its next step.
Sound(w) ==
  /\ at(w, "insert") => task[w].row.status = "candidate" /\ task[w].row.org \in Organization
  /\ task[w].at \in Trusting \cup Merging \cup {"alias", "edit"} => task[w].asset \in Asset
  /\ task[w].at \in Trusting \cup Merging \cup {"edit"} => exists(task[w].asset)
  /\ task[w].at \in Merging => task[w].target \in Asset
  /\ at(w, "trust") => task[w].status \in Trust
  /\ at(w, "promote") => task[w].row.status \in Trust
  /\ at(w, "redirect") => /\ task[w].row.status = "merged"
                          /\ task[w].row.canonical = task[w].target
  /\ task[w].at \in Writing => /\ task[w].row.status \in Status
                               /\ task[w].row.org = assets[task[w].asset].org

Typed ==
  /\ TypeOK
  /\ task \in [Worker -> Task]
  /\ \A w \in Worker : Sound(w)

\* A record stays, and stays with its organization.
RecordsStay ==
  \A a \in Asset : exists(a) => exists(a)' /\ assets'[a].org = assets[a].org

LEMMA Constants ==
  /\ Unit \in Asset /\ NoAsset \notin Asset /\ Global \notin Organization
  /\ "unborn" \notin Asset \cup {NoAsset}
  /\ HomeOf \in [User -> Organization] /\ AuthorOf \in [Record -> User]
  /\ ByHand \subseteq Status
BY AssetConstants, StatusesByHand

LEMMA RowTypes == unborn \in Row /\ idle \in Task
BY AssetConstants DEF Row, Task, unborn, idle

\* One worker moves on; the others carry what they carried.
LEMMA OneTask ==
  ASSUME Typed, RecordsStay, NEW w \in Worker, NEW t \in Task, goes(w, t), Sound(w)'
  PROVE  /\ task' \in [Worker -> Task]
         /\ \A v \in Worker : Sound(v)'
         /\ task'[w] = t /\ \A v \in Worker \ {w} : task'[v] = task[v]
<1>1. task' \in [Worker -> Task] /\ task'[w] = t
  BY DEF Typed, goes
<1>2. \A v \in Worker \ {w} : task'[v] = task[v]
  BY DEF Typed, goes
<1>3. ASSUME NEW v \in Worker, v # w PROVE Sound(v)'
  <2>1. task'[v] = task[v] /\ Sound(v)
    BY <1>2, <1>3 DEF Typed
  <2>2. task[v].at \in Writing => task[v].at \in Trusting \cup Merging \cup {"edit"}
    BY DEF Writing, Trusting, Merging
  <2>3. task[v].at \in Trusting \cup Merging \cup {"edit"} =>
          /\ assets'[task[v].asset].status \in Status
          /\ assets'[task[v].asset].org = assets[task[v].asset].org
    BY <2>1 DEF Sound, RecordsStay, exists
  <2> QED BY <2>1, <2>2, <2>3 DEF Sound, at, exists
<1> QED BY <1>1, <1>2, <1>3

\* No worker moves.
LEMMA NoTask ==
  ASSUME Typed, RecordsStay, task' = task
  PROVE  task' \in [Worker -> Task] /\ \A v \in Worker : Sound(v)'
BY DEF Typed, Sound, RecordsStay, at, Trusting, Merging, Writing

LEMMA TypedInit == ASSUME Init PROVE Typed
<1>1. TypeOK
  BY AssetConstants, RowTypes DEF Init, TypeOK, Row, unborn, Status
<1>2. task \in [Worker -> Task] /\ \A w \in Worker : Sound(w)
  BY RowTypes DEF Init, Sound, at, idle, Trusting, Merging, Writing
<1> QED BY <1>1, <1>2 DEF Typed

LEMMA SameAssets ==
  ASSUME assets' = assets
  PROVE  RecordsStay /\ \A a \in Asset : exists(a)' <=> exists(a)
BY DEF RecordsStay, exists

-------------------------------------------------------------------------------
(* Types, action by action.                                                 *)

LEMMA CreateTypes ==
  ASSUME Typed, NEW w \in Worker, NEW o \in Organization, NEW n \in Name, NEW g \in Game,
         CreateAsset(w, o, n, g)
  PROVE  Typed' /\ task'[w].at = "insert"
<1> DEFINE row == [status |-> "candidate", canonical |-> NoAsset, name |-> n, game |-> g, org |-> o]
           t == [idle EXCEPT !.at = "insert", !.names = {n}, !.row = row]
<1>1. row \in Row
  BY DEF Row, Status
<1>2. t \in Task /\ t.at = "insert" /\ t.row.status = "candidate" /\ t.row.org = o
  BY <1>1, RowTypes DEF Task, idle, Changing
<1> HIDE DEF t
<1>3. goes(w, t) /\ UNCHANGED <<assets, aliases, records, usedBy, published>>
  BY DEF CreateAsset, begins, t
<1>4. TypeOK' /\ RecordsStay
  BY <1>3, SameAssets DEF Typed, TypeOK
<1>5. task'[w] = t
  BY <1>3 DEF goes, Typed
<1>6. Sound(w)'
  BY <1>2, <1>5 DEF Sound, at, Trusting, Merging, Writing
<1> QED BY <1>2, <1>3, <1>4, <1>5, <1>6, OneTask DEF Typed
LEMMA InsertTypes ==
  ASSUME Typed, NEW w \in Worker, InsertAsset(w)
  PROVE  /\ Typed' /\ RecordsStay
         /\ \E a \in Asset : /\ ~exists(a)
                             /\ assets' = [assets EXCEPT ![a] = task[w].row]
                             /\ task'[w].at = "alias"
<1>1. PICK a \in Asset :
        /\ ~exists(a)
        /\ assets' = [assets EXCEPT ![a] = task[w].row]
        /\ goes(w, [idle EXCEPT !.at = "alias", !.asset = a, !.names = task[w].names])
  BY DEF InsertAsset
<1>2. UNCHANGED <<aliases, records, usedBy, published>> /\ at(w, "insert")
  BY DEF InsertAsset
<1>3. task[w] \in Task
  BY DEF Typed
<1>4. PICK names \in SUBSET Name : task[w].names = names
  BY <1>3 DEF Task
<1> DEFINE t == [idle EXCEPT !.at = "alias", !.asset = a, !.names = names]
<1>5. t \in Task /\ t.at = "alias" /\ t.asset = a
  BY RowTypes DEF Task, idle, Changing
<1> HIDE DEF t
<1>6. goes(w, t)
  BY <1>1, <1>4 DEF t
<1>7. task[w].row \in Row
  BY <1>3 DEF Task
<1>8. TypeOK'
  BY <1>1, <1>2, <1>7 DEF Typed, TypeOK, Row
<1>9. RecordsStay
  BY <1>1 DEF Typed, TypeOK, RecordsStay, exists
<1>10. task'[w] = t
  BY <1>6 DEF goes, Typed
<1>11. Sound(w)'
  BY <1>5, <1>10 DEF Sound, at, Trusting, Merging, Writing
<1> QED BY <1>1, <1>5, <1>6, <1>8, <1>9, <1>10, <1>11, OneTask DEF Typed

LEMMA IdleTypes ==
  ASSUME Typed, TypeOK', RecordsStay, NEW w \in Worker, ends(w)
  PROVE  Typed' /\ task'[w] = idle
<1>1. task'[w] = idle
  BY DEF ends, goes, Typed
<1>2. Sound(w)'
  BY <1>1 DEF Sound, at, idle, Trusting, Merging, Writing
<1>3. goes(w, idle)
  BY DEF ends
<1> QED BY <1>1, <1>2, <1>3, RowTypes, OneTask DEF Typed

LEMMA AliasTypes ==
  ASSUME Typed, NEW w \in Worker, InsertAlias(w)
  PROVE  Typed' /\ assets' = assets
<1>1. UNCHANGED <<assets, records, usedBy, published>> /\ at(w, "alias")
  BY DEF InsertAlias
<1>2. PICK n \in task[w].names :
        /\ aliases' = [aliases EXCEPT ![task[w].asset] = @ \cup {n}]
        /\ IF task[w].names = {n} THEN ends(w)
           ELSE goes(w, [task[w] EXCEPT !.names = @ \ {n}])
  BY DEF InsertAlias
<1>3. task[w] \in Task /\ task[w].asset \in Asset /\ task[w].names \subseteq Name
  BY <1>1 DEF Typed, Task, Sound, at
<1>4. aliases' \in [Asset -> SUBSET Name]
  BY <1>2, <1>3 DEF Typed, TypeOK
<1>5. TypeOK' /\ RecordsStay
  BY <1>1, <1>4, SameAssets DEF Typed, TypeOK
<1>6. CASE task[w].names = {n}
  BY <1>1, <1>2, <1>5, <1>6, IdleTypes
<1>7. CASE task[w].names # {n}
  <2>1. PICK t \in Task : t = [task[w] EXCEPT !.names = @ \ {n}]
    BY <1>3 DEF Task
  <2>2. goes(w, t) /\ t.at = "alias" /\ t.asset \in Asset
    BY <1>1, <1>2, <1>3, <1>7, <2>1 DEF at, Task
  <2>3. task'[w] = t
    BY <2>2 DEF goes, Typed
  <2>4. Sound(w)'
    BY <2>2, <2>3 DEF Sound, at, Trusting, Merging, Writing
  <2> QED BY <1>1, <1>5, <2>2, <2>4, OneTask DEF Typed
<1> QED BY <1>6, <1>7

LEMMA MergeTypes ==
  ASSUME Typed, NEW w \in Worker, NEW a \in Asset, NEW b \in Asset, MergeAsset(w, a, b)
  PROVE  Typed' /\ assets' = assets
         /\ task'[w].at = "merge" /\ task'[w].asset = a /\ task'[w].target = b
<1> DEFINE t == [idle EXCEPT !.at = "merge", !.asset = a, !.target = b]
<1>1. t \in Task /\ t.at = "merge" /\ t.asset = a /\ t.target = b
  BY RowTypes DEF Task, idle, Changing, Merging
<1> HIDE DEF t
<1>2. goes(w, t) /\ UNCHANGED <<assets, aliases, records, usedBy, published>>
  BY DEF MergeAsset, begins, t
<1>3. TypeOK' /\ RecordsStay
  BY <1>2, SameAssets DEF Typed, TypeOK
<1>4. task'[w] = t /\ exists(a)
  BY <1>2 DEF goes, Typed, MergeAsset, mergeable
<1>5. Sound(w)'
  BY <1>1, <1>3, <1>4 DEF Sound, at, Trusting, Merging, Writing, RecordsStay
<1> QED BY <1>1, <1>2, <1>3, <1>4, <1>5, OneTask DEF Typed

LEMMA ResolveTypes ==
  ASSUME Typed, NEW w \in Worker, resolveCanonicalAsset(w)
  PROVE  /\ Typed' /\ assets' = assets
         /\ \/ task'[w] = idle
            \/ /\ task'[w].at = "mark" /\ task'[w].asset = task[w].asset
               /\ task'[w].target \in canonical(task[w].target)
<1>1. UNCHANGED <<assets, aliases, records, usedBy, published>> /\ at(w, "merge")
  BY DEF resolveCanonicalAsset
<1>2. /\ task[w] \in Task /\ task[w].asset \in Asset /\ task[w].target \in Asset
      /\ exists(task[w].asset)
  BY <1>1 DEF Typed, Sound, at, Merging
<1>3. TypeOK' /\ RecordsStay
  BY <1>1, SameAssets DEF Typed, TypeOK
<1>4. CASE ends(w)
  BY <1>1, <1>3, <1>4, IdleTypes
<1>5. ASSUME NEW b \in canonical(task[w].target),
             goes(w, [task[w] EXCEPT !.at = "mark", !.target = b])
      PROVE  /\ Typed' /\ task'[w].at = "mark" /\ task'[w].asset = task[w].asset
             /\ task'[w].target = b
  <2>1. b \in Asset
    BY DEF canonical, seen
  <2>2. PICK t \in Task : t = [task[w] EXCEPT !.at = "mark", !.target = b]
    BY <1>2, <2>1 DEF Task, Changing, Merging
  <2>3. goes(w, t) /\ t.at = "mark" /\ t.asset = task[w].asset /\ t.target = b
    BY <1>2, <1>5, <2>2 DEF Task
  <2>4. task'[w] = t
    BY <2>3 DEF goes, Typed
  <2>5. Sound(w)'
    BY <1>2, <1>3, <2>1, <2>3, <2>4 DEF Sound, at, Trusting, Merging, Writing, RecordsStay
  <2> QED BY <1>1, <1>3, <2>3, <2>4, <2>5, OneTask DEF Typed
<1> QED BY <1>1, <1>4, <1>5 DEF resolveCanonicalAsset

\* An UPDATE puts the row that its SELECT prepared in place of the asset's.
LEMMA WriteTypes ==
  ASSUME Typed, NEW w \in Worker, task[w].at \in Writing, updates(w)
  PROVE  /\ task[w].asset \in Asset /\ exists(task[w].asset)
         /\ assets' \in [Asset -> Row] /\ RecordsStay
         /\ \A b \in Asset \ {task[w].asset} : assets'[b] = assets[b]
         /\ assets'[task[w].asset] = task[w].row
<1>1. /\ task[w] \in Task /\ task[w].asset \in Asset /\ exists(task[w].asset)
      /\ task[w].row.status \in Status /\ task[w].row.org = assets[task[w].asset].org
  BY DEF Typed, Sound, Writing, Trusting, Merging
<1>2. task[w].row \in Row
  BY <1>1 DEF Task
<1>3. assets \in [Asset -> Row]
  BY DEF Typed, TypeOK, Row
<1>4. /\ assets' \in [Asset -> Row]
      /\ \A b \in Asset \ {task[w].asset} : assets'[b] = assets[b]
      /\ assets'[task[w].asset] = task[w].row
  BY <1>1, <1>2, <1>3 DEF updates
<1>5. RecordsStay
  BY <1>1, <1>4 DEF RecordsStay, exists
<1> QED BY <1>1, <1>4, <1>5

\* A SELECT reads a row and prepares what will be written.
LEMMA SelectTypes ==
  ASSUME Typed, NEW w \in Worker, NEW row \in Row, NEW point \in {"promote", "redirect"},
         selects(w, row, point), UNCHANGED <<assets, aliases, records, usedBy, published>>,
         task[w].asset \in Asset, exists(task[w].asset),
         row.status \in Status, row.org = assets[task[w].asset].org,
         point = "promote" => row.status \in Trust,
         point = "redirect" => /\ row.status = "merged" /\ row.canonical = task[w].target
                               /\ task[w].target \in Asset
  PROVE  /\ Typed' /\ task'[w].at = point /\ task'[w].row = row
         /\ task'[w].asset = task[w].asset /\ task'[w].target = task[w].target
<1>1. task[w] \in Task
  BY DEF Typed
<1>2. PICK t \in Task : t = [task[w] EXCEPT !.at = point, !.row = row]
  BY <1>1 DEF Task, Changing, Merging, Trusting
<1>3. /\ goes(w, t) /\ t.at = point /\ t.row = row /\ t.asset = task[w].asset
      /\ t.target = task[w].target
  BY <1>1, <1>2 DEF Task, selects
<1>4. TypeOK' /\ RecordsStay
  BY SameAssets DEF Typed, TypeOK
<1>5. task'[w] = t
  BY <1>3 DEF goes, Typed
<1>6. Sound(w)'
  BY <1>3, <1>4, <1>5 DEF Sound, at, Trusting, Merging, Writing, RecordsStay
<1> QED BY <1>3, <1>4, <1>5, <1>6, OneTask DEF Typed

LEMMA SelectMergedTypes ==
  ASSUME Typed, NEW w \in Worker, SelectMerged(w)
  PROVE  /\ Typed' /\ assets' = assets /\ at(w, "mark")
         /\ task'[w].at = "redirect" /\ task'[w].asset = task[w].asset
         /\ task'[w].target = task[w].target
         /\ task'[w].row = [assets[task[w].asset] EXCEPT !.status = "merged",
                                                        !.canonical = task[w].target]
<1>1. UNCHANGED <<assets, aliases, records, usedBy, published>> /\ at(w, "mark")
  BY DEF SelectMerged
<1>2. task[w].asset \in Asset /\ exists(task[w].asset) /\ task[w].target \in Asset
  BY <1>1 DEF Typed, Sound, at, Merging
<1>3. assets[task[w].asset] \in Row
  BY <1>2 DEF Typed, TypeOK, Row
<1>4. PICK row \in Row : row = [assets[task[w].asset] EXCEPT !.status = "merged",
                                                            !.canonical = task[w].target]
  BY <1>2, <1>3 DEF Row, Status
<1>5. /\ row.status = "merged" /\ row.canonical = task[w].target
      /\ row.org = assets[task[w].asset].org /\ row.status \in Status
  BY <1>3, <1>4 DEF Row, Status
<1>6. selects(w, row, "redirect")
  BY <1>4 DEF SelectMerged
<1>7. /\ Typed' /\ task'[w].at = "redirect" /\ task'[w].row = row
      /\ task'[w].asset = task[w].asset /\ task'[w].target = task[w].target
  BY <1>1, <1>2, <1>5, <1>6, SelectTypes
<1> QED BY <1>1, <1>4, <1>7

LEMMA MarkTypes ==
  ASSUME Typed, NEW w \in Worker, MarkMerged(w)
  PROVE  /\ Typed' /\ RecordsStay /\ updates(w)
         /\ at(w, "redirect") /\ task[w].asset \in Asset
         /\ task'[w].at = "list"
         /\ \A b \in Asset \ {task[w].asset} : assets'[b] = assets[b]
         /\ assets'[task[w].asset].status = "merged"
         /\ assets'[task[w].asset].canonical = task[w].target
<1> DEFINE a == task[w].asset
           c == task[w].target
<1>1. UNCHANGED <<aliases, records, usedBy, published>> /\ at(w, "redirect") /\ updates(w)
  BY DEF MarkMerged
<1>2. /\ task[w] \in Task /\ a \in Asset /\ c \in Asset /\ exists(a)
      /\ task[w].row.status = "merged" /\ task[w].row.canonical = c
  BY <1>1 DEF Typed, Sound, at, Merging
<1>3. /\ assets' \in [Asset -> Row] /\ RecordsStay
      /\ \A b \in Asset \ {a} : assets'[b] = assets[b]
      /\ assets'[a].status = "merged" /\ assets'[a].canonical = c
  BY <1>1, <1>2, WriteTypes DEF at, Writing
<1>4. TypeOK'
  BY <1>1, <1>3 DEF Typed, TypeOK, Row
<1>5. PICK t \in Task : t = [task[w] EXCEPT !.at = "list"]
  BY <1>2 DEF Task, Changing, Merging
<1>6. goes(w, t) /\ t.at = "list" /\ t.asset = a /\ t.target = c
  BY <1>2, <1>5 DEF Task, MarkMerged
<1>7. task'[w] = t
  BY <1>6 DEF goes, Typed
<1>8. Sound(w)'
  BY <1>2, <1>3, <1>6, <1>7 DEF Sound, at, Trusting, Merging, Writing, RecordsStay
<1> QED BY <1>1, <1>2, <1>3, <1>4, <1>6, <1>7, <1>8, OneTask DEF Typed

LEMMA ListTypes ==
  ASSUME Typed, NEW w \in Worker, ListAliases(w)
  PROVE  Typed' /\ assets' = assets /\ task'[w].at \in {"alias", "idle"}
<1>1. UNCHANGED <<assets, aliases, records, usedBy, published>> /\ at(w, "list")
  BY DEF ListAliases
<1>2. task[w] \in Task /\ task[w].asset \in Asset /\ task[w].target \in Asset
  BY <1>1 DEF Typed, Sound, at, Merging
<1>3. TypeOK' /\ RecordsStay
  BY <1>1, SameAssets DEF Typed, TypeOK
<1>4. PICK c \in Asset, missing \in SUBSET Name :
        /\ c = task[w].target /\ missing = aliases[task[w].asset] \ aliases[c]
  BY <1>2 DEF Typed, TypeOK
<1> DEFINE t == [idle EXCEPT !.at = "alias", !.asset = c, !.names = missing]
<1>5. t \in Task /\ t.at = "alias" /\ t.asset = c
  BY RowTypes DEF Task, idle, Changing
<1> HIDE DEF t
<1>6. ends(w) \/ goes(w, t)
  BY <1>4 DEF ListAliases, t
<1>7. CASE ends(w)
  BY <1>1, <1>3, <1>7, IdleTypes DEF idle
<1>8. CASE goes(w, t)
  <2>1. task'[w] = t
    BY <1>8 DEF goes, Typed
  <2>2. Sound(w)'
    BY <1>5, <2>1 DEF Sound, at, Trusting, Merging, Writing
  <2> QED BY <1>1, <1>3, <1>5, <1>8, <2>1, <2>2, OneTask DEF Typed
<1> QED BY <1>6, <1>7, <1>8

LEMMA CreateRecordTypes ==
  ASSUME Typed, NEW w \in Worker, NEW r \in Record, NEW a \in Asset, CreateRecord(w, r, a)
  PROVE  Typed' /\ assets' = assets /\ task'[w].at = "recompute"
<1> DEFINE t == [idle EXCEPT !.at = "recompute", !.asset = a]
<1>1. t \in Task /\ t.at = "recompute" /\ t.asset = a
  BY RowTypes DEF Task, idle, Trusting
<1> HIDE DEF t
<1>2. /\ goes(w, t) /\ UNCHANGED <<assets, aliases, published>> /\ exists(a)
      /\ records' = [records EXCEPT ![r] = a]
      /\ usedBy' = [usedBy EXCEPT ![a] = @ \cup {AuthorOf[r]}]
  BY DEF CreateRecord, begins, t
<1>3. AuthorOf[r] \in User
  BY Constants
<1>4. TypeOK' /\ RecordsStay
  BY <1>2, <1>3, SameAssets DEF Typed, TypeOK
<1>5. task'[w] = t
  BY <1>2 DEF goes, Typed
<1>6. Sound(w)'
  BY <1>1, <1>2, <1>4, <1>5 DEF Sound, at, Trusting, Merging, Writing, RecordsStay
<1> QED BY <1>1, <1>2, <1>4, <1>5, <1>6, OneTask DEF Typed

LEMMA RepointTypes ==
  ASSUME Typed, NEW r \in Record, NEW a \in Asset \cup {NoAsset}, RepointRecord(r, a)
  PROVE  Typed' /\ assets' = assets /\ task' = task
<1>1. /\ UNCHANGED <<assets, aliases, published>> /\ task' = task
      /\ records' = [records EXCEPT ![r] = a]
      /\ usedBy' = [b \in Asset |-> IF b = a THEN usedBy[b] \cup {AuthorOf[r]} ELSE usedBy[b]]
  BY DEF RepointRecord, edited
<1>2. AuthorOf[r] \in User
  BY Constants
<1>3. records' \in [Record -> Asset \cup {NoAsset, "unborn"}]
  BY <1>1 DEF Typed, TypeOK
<1>4. usedBy' \in [Asset -> SUBSET User]
  BY <1>1, <1>2 DEF Typed, TypeOK
<1>5. TypeOK' /\ RecordsStay
  BY <1>1, <1>3, <1>4, SameAssets DEF Typed, TypeOK
<1> QED BY <1>1, <1>5, NoTask DEF Typed

\* The status of a recomputation.
LEMMA EvidenceType ==
  ASSUME NEW a, NEW o
  PROVE  resolveStatusFromEvidence(a, o) \in Trust
BY DEF Trust, resolveStatusFromEvidence

LEMMA ReadTypes ==
  ASSUME Typed, NEW w \in Worker, ReadTrusted(w)
  PROVE  Typed' /\ assets' = assets /\ task'[w].at \in {"idle", "evidence"}
<1>1. UNCHANGED <<assets, aliases, records, usedBy, published>> /\ at(w, "recompute")
  BY DEF ReadTrusted
<1>2. task[w] \in Task /\ task[w].asset \in Asset /\ exists(task[w].asset)
  BY <1>1 DEF Typed, Sound, at, Trusting
<1>3. TypeOK' /\ RecordsStay
  BY <1>1, SameAssets DEF Typed, TypeOK
<1>4. assets[task[w].asset].status \in Status \cup {"absent"}
  BY <1>2 DEF Typed, TypeOK
<1>5. PICK t \in Task : t = [task[w] EXCEPT !.at = "evidence",
                                            !.status = assets[task[w].asset].status]
  BY <1>2, <1>4 DEF Task, Trusting
<1>6. t.at = "evidence" /\ t.asset = task[w].asset
  BY <1>2, <1>5 DEF Task
<1>7. ends(w) \/ goes(w, t)
  BY <1>5 DEF ReadTrusted
<1>8. CASE ends(w)
  BY <1>1, <1>3, <1>8, IdleTypes DEF idle
<1>9. CASE goes(w, t)
  <2>1. task'[w] = t
    BY <1>9 DEF goes, Typed
  <2>2. Sound(w)'
    BY <1>2, <1>3, <1>6, <2>1 DEF Sound, at, Trusting, Merging, Writing, RecordsStay
  <2> QED BY <1>1, <1>3, <1>6, <1>9, <2>1, <2>2, OneTask DEF Typed
<1> QED BY <1>7, <1>8, <1>9

LEMMA EvidenceTypes ==
  ASSUME Typed, NEW w \in Worker, CollectEvidence(w)
  PROVE  /\ Typed' /\ assets' = assets
         /\ \/ task'[w] = idle
            \/ /\ at(w, "evidence") /\ task[w].asset \in Asset
               /\ task'[w].at = "trust" /\ task'[w].asset = task[w].asset
               /\ task'[w].status = resolveStatusFromEvidence(task[w].asset,
                                                              assets[task[w].asset].org)
<1> DEFINE next == resolveStatusFromEvidence(task[w].asset, assets[task[w].asset].org)
<1>1. UNCHANGED <<assets, aliases, records, usedBy, published>> /\ at(w, "evidence")
  BY DEF CollectEvidence
<1>2. task[w] \in Task /\ task[w].asset \in Asset /\ exists(task[w].asset)
  BY <1>1 DEF Typed, Sound, at, Trusting
<1>3. TypeOK' /\ RecordsStay
  BY <1>1, SameAssets DEF Typed, TypeOK
<1>4. next \in Status /\ next \in Trust
  BY EvidenceType DEF Status, Trust
<1>5. ends(w) \/ goes(w, [task[w] EXCEPT !.at = "trust", !.status = next])
  BY DEF CollectEvidence
<1> HIDE DEF next
<1>6. PICK t \in Task : t = [task[w] EXCEPT !.at = "trust", !.status = next]
  BY <1>2, <1>4 DEF Task, Trusting
<1>7. t.at = "trust" /\ t.asset = task[w].asset /\ t.status = next
  BY <1>2, <1>6 DEF Task
<1>8. CASE ends(w)
  BY <1>1, <1>3, <1>8, IdleTypes
<1>9. CASE goes(w, t)
  <2>1. task'[w] = t
    BY <1>9 DEF goes, Typed
  <2>2. Sound(w)'
    BY <1>2, <1>3, <1>4, <1>7, <2>1 DEF Sound, at, Trusting, Merging, Writing, RecordsStay
  <2>3. Typed' /\ task'[w] = t
    BY <1>1, <1>3, <1>9, <2>1, <2>2, OneTask DEF Typed
  <2> QED BY <1>1, <1>2, <1>7, <2>3 DEF next
<1> QED BY <1>1, <1>5, <1>6, <1>8, <1>9

LEMMA SelectTrustedTypes ==
  ASSUME Typed, NEW w \in Worker, SelectTrusted(w)
  PROVE  /\ Typed' /\ assets' = assets /\ at(w, "trust")
         /\ task[w].asset \in Asset /\ exists(task[w].asset)
         /\ task'[w].at = "promote" /\ task'[w].asset = task[w].asset
         /\ task'[w].row.status = task[w].status
<1>1. UNCHANGED <<assets, aliases, records, usedBy, published>> /\ at(w, "trust")
  BY DEF SelectTrusted
<1>2. task[w].asset \in Asset /\ exists(task[w].asset) /\ task[w].status \in Trust
  BY <1>1 DEF Typed, Sound, at, Trusting
<1>3. assets[task[w].asset] \in Row
  BY <1>2 DEF Typed, TypeOK, Row
<1>4. PICK row \in Row : row = [assets[task[w].asset] EXCEPT !.status = task[w].status]
  BY <1>2, <1>3 DEF Row, Status, Trust
<1>5. /\ row.status = task[w].status /\ row.status \in Status
      /\ row.org = assets[task[w].asset].org
  BY <1>2, <1>3, <1>4 DEF Row, Status, Trust
<1>6. selects(w, row, "promote")
  BY <1>4 DEF SelectTrusted
<1>7. /\ Typed' /\ task'[w].at = "promote" /\ task'[w].row = row
      /\ task'[w].asset = task[w].asset
  BY <1>1, <1>2, <1>5, <1>6, SelectTypes
<1> QED BY <1>1, <1>2, <1>5, <1>7

LEMMA TrustTypes ==
  ASSUME Typed, NEW w \in Worker, WriteTrust(w)
  PROVE  /\ Typed' /\ RecordsStay /\ updates(w)
         /\ at(w, "promote") /\ task[w].asset \in Asset /\ task'[w] = idle
         /\ task[w].row.status \in Trust
         /\ \A b \in Asset \ {task[w].asset} : assets'[b] = assets[b]
         /\ assets'[task[w].asset] = task[w].row
<1>1. /\ UNCHANGED <<aliases, records, usedBy, published>> /\ at(w, "promote") /\ ends(w)
      /\ updates(w)
  BY DEF WriteTrust
<1>2. /\ task[w].asset \in Asset /\ assets' \in [Asset -> Row] /\ RecordsStay
      /\ \A b \in Asset \ {task[w].asset} : assets'[b] = assets[b]
      /\ assets'[task[w].asset] = task[w].row
  BY <1>1, WriteTypes DEF at, Writing
<1>3. TypeOK'
  BY <1>1, <1>2 DEF Typed, TypeOK, Row
<1>4. task[w].row.status \in Trust
  BY <1>1 DEF Typed, Sound
<1> QED BY <1>1, <1>2, <1>3, <1>4, IdleTypes

LEMMA UpdateTypes ==
  ASSUME Typed, NEW w \in Worker, NEW a \in Asset, UpdateAsset(w, a)
  PROVE  /\ Typed' /\ assets' = assets /\ published' = published
         /\ permitted /\ exists(a) /\ task[w] = idle
         /\ task'[w].at = "edit" /\ task'[w].asset = a
         /\ \A v \in Worker \ {w} : task'[v] = task[v]
         /\ \/ /\ task'[w].row.status = assets[a].status
               /\ task'[w].row.canonical = assets[a].canonical
            \/ /\ task'[w].row.status \in ByHand /\ task'[w].status \in Status
<1>1. /\ UNCHANGED <<assets, aliases, records, usedBy, published>> /\ exists(a) /\ permitted
      /\ task[w] = idle
  BY DEF UpdateAsset
<1>2. PICK n \in Name, g \in Game, s \in ByHand \cup {"absent"} :
        task' = [task EXCEPT ![w] = [idle EXCEPT !.at = "edit", !.asset = a, !.status = s,
                                                 !.row = patched(assets[a], n, g, s)]]
  BY DEF UpdateAsset
<1>3. assets[a] \in Row /\ assets[a].status \in Status
  BY <1>1 DEF Typed, TypeOK, Row, exists
<1> DEFINE row == patched(assets[a], n, g, s)
<1>4. /\ row \in Row /\ s \in Status \cup {"absent"}
      /\ row.org = assets[a].org /\ row.status \in Status
      /\ \/ row.status = assets[a].status /\ row.canonical = assets[a].canonical
         \/ row.status \in ByHand /\ s \in Status
  BY <1>3, StatusesByHand DEF Row, Status, patched
<1> DEFINE t == [idle EXCEPT !.at = "edit", !.asset = a, !.status = s, !.row = row]
<1>5. t \in Task /\ t.at = "edit" /\ t.asset = a /\ t.row = row /\ t.status = s
  BY <1>4, RowTypes DEF Task, idle, Changing
<1>6. task' = [task EXCEPT ![w] = t]
  BY <1>2
<1> HIDE DEF t, row
<1>7. /\ task' \in [Worker -> Task] /\ task'[w] = t
      /\ \A v \in Worker \ {w} : task'[v] = task[v]
  BY <1>5, <1>6 DEF Typed
<1>8. TypeOK' /\ RecordsStay
  BY <1>1, SameAssets DEF Typed, TypeOK
<1>9. Sound(w)'
  BY <1>1, <1>4, <1>5, <1>7, <1>8 DEF Sound, at, Trusting, Merging, Writing, RecordsStay
<1>10. ASSUME NEW v \in Worker \ {w} PROVE Sound(v)'
  <2>1. task'[v] = task[v] /\ Sound(v) /\ assets' = assets
    BY <1>1, <1>7 DEF Typed
  <2> QED BY <2>1 DEF Sound, at, exists
<1> QED BY <1>1, <1>4, <1>5, <1>7, <1>8, <1>9, <1>10 DEF Typed

LEMMA EditTypes ==
  ASSUME Typed, NEW w \in Worker, WriteEdit(w)
  PROVE  /\ Typed' /\ RecordsStay /\ updates(w)
         /\ at(w, "edit") /\ task[w].asset \in Asset /\ task'[w] = idle
         /\ \A b \in Asset \ {task[w].asset} : assets'[b] = assets[b]
         /\ assets'[task[w].asset] = task[w].row
         /\ published \subseteq published'
         /\ task[w].status \in Status => task[w].asset \in published'
<1>1. /\ UNCHANGED <<aliases, records, usedBy>> /\ at(w, "edit") /\ ends(w) /\ updates(w)
      /\ published' = published \cup {a \in {task[w].asset} : task[w].status \in Status}
  BY DEF WriteEdit
<1>2. /\ task[w].asset \in Asset /\ assets' \in [Asset -> Row] /\ RecordsStay
      /\ \A b \in Asset \ {task[w].asset} : assets'[b] = assets[b]
      /\ assets'[task[w].asset] = task[w].row
  BY <1>1, WriteTypes DEF at, Writing
<1>3. TypeOK'
  BY <1>1, <1>2 DEF Typed, TypeOK, Row
<1> QED BY <1>1, <1>2, <1>3, IdleTypes

LEMMA TypedStep == ASSUME Typed, [Next]_vars PROVE Typed' /\ RecordsStay
<1>1. CASE UNCHANGED vars
  BY <1>1, SameAssets, NoTask DEF vars, Typed, TypeOK
<1>2. ASSUME NEW w \in Worker, Step(w) PROVE Typed' /\ RecordsStay
  BY <1>2, InsertTypes, AliasTypes, ResolveTypes, SelectMergedTypes, MarkTypes, ListTypes,
     ReadTypes, EvidenceTypes, SelectTrustedTypes, TrustTypes, EditTypes, SameAssets DEF Step
<1>3. ASSUME NEW w \in Worker, NEW o \in Organization, NEW n \in Name, NEW g \in Game,
             CreateAsset(w, o, n, g)
      PROVE  Typed' /\ RecordsStay
  BY <1>3, CreateTypes, SameAssets DEF CreateAsset
<1>4. ASSUME NEW w \in Worker, NEW a \in Asset, NEW b \in Asset, MergeAsset(w, a, b)
      PROVE  Typed' /\ RecordsStay
  BY <1>4, MergeTypes, SameAssets
<1>5. ASSUME NEW w \in Worker, NEW r \in Record, NEW a \in Asset, CreateRecord(w, r, a)
      PROVE  Typed' /\ RecordsStay
  BY <1>5, CreateRecordTypes, SameAssets
<1>6. ASSUME NEW r \in Record, NEW a \in Asset \cup {NoAsset}, RepointRecord(r, a)
      PROVE  Typed' /\ RecordsStay
  BY <1>6, RepointTypes, SameAssets
<1>7. ASSUME NEW w \in Worker, NEW a \in Asset, UpdateAsset(w, a)
      PROVE  Typed' /\ RecordsStay
  BY <1>7, UpdateTypes, SameAssets
<1> QED BY <1>1, <1>2, <1>3, <1>4, <1>5, <1>6, <1>7 DEF Next

LEMMA AlwaysTyped == Spec => []Typed
<1>1. Init => Typed
  BY TypedInit
<1>2. Typed /\ [Next]_vars => Typed'
  BY TypedStep
<1> QED BY <1>1, <1>2, PTL DEF Spec

\* The tables hold what their columns allow, whatever overlaps.
THEOREM TypeCorrect == Spec => []TypeOK
<1>1. Typed => TypeOK
  BY DEF Typed
<1> QED BY <1>1, AlwaysTyped, PTL

-------------------------------------------------------------------------------
(* Controlled exposure.  Behind a status stands the use that earned it, in  *)
(* the record, in the recomputation that is about to write it, and in every *)
(* row that is about to be put back.                                        *)

homes(a) == {HomeOf[u] : u \in usedBy[a]}

own(a) == {u \in usedBy[a] : HomeOf[u] = assets[a].org}

Earned(a, status) ==
  /\ status = "active" => Cardinality(homes(a)) >= 2
  /\ status = "org_verified" => Cardinality(homes(a)) >= 2 \/ Cardinality(own(a)) >= 2

Exposure ==
  /\ Typed
  /\ \A a \in Asset : IsFiniteSet(usedBy[a])
  /\ \A r \in Record : records[r] \in Asset => AuthorOf[r] \in usedBy[records[r]]
  /\ \A a \in Asset \ {Unit} : exists(a) => assets[a].org \in Organization
  /\ \A a \in Asset \ (published \cup {Unit}) : Earned(a, assets[a].status)
  /\ \A w \in Worker : at(w, "trust") => Earned(task[w].asset, task[w].status)
  /\ \A w \in Worker : task[w].at \in Writing =>
       \/ Earned(task[w].asset, task[w].row.status)
       \/ task[w].asset \in published \cup {Unit}
       \/ at(w, "edit") /\ task[w].status \in Status

LEMMA FewHomes == ASSUME NEW S, IsFiniteSet(S) PROVE IsFiniteSet({HomeOf[u] : u \in S})
<1> DEFINE T == {HomeOf[u] : u \in S}
           f == [u \in S |-> HomeOf[u]]
<1>1. f \in Surjection(S, T)
  BY DEF Surjection
<1> QED BY <1>1, FS_Surjection

LEMMA FinitelyUsed ==
  ASSUME NEW a \in Asset, IsFiniteSet(usedBy[a])
  PROVE  IsFiniteSet(homes(a)) /\ IsFiniteSet(own(a))
<1>1. IsFiniteSet(homes(a))
  BY FewHomes DEF homes
<1>2. own(a) \subseteq usedBy[a]
  BY DEF own
<1> QED BY <1>1, <1>2, FS_Subset

\* Use is never taken back, so what was earned stays earned.
LEMMA EarnedStays ==
  ASSUME NEW a \in Asset, NEW status, IsFiniteSet(usedBy'[a]), usedBy[a] \subseteq usedBy'[a],
         assets'[a].org = assets[a].org, Earned(a, status)
  PROVE  Earned(a, status)'
<1>1. IsFiniteSet(homes(a)') /\ IsFiniteSet(own(a)')
  <2>1. IsFiniteSet(homes(a)')
    BY FewHomes DEF homes
  <2>2. own(a)' \subseteq usedBy'[a]
    BY DEF own
  <2> QED BY <2>1, <2>2, FS_Subset
<1>2. homes(a) \subseteq homes(a)' /\ own(a) \subseteq own(a)'
  BY DEF homes, own
<1>3. /\ IsFiniteSet(homes(a)) /\ Cardinality(homes(a)) <= Cardinality(homes(a)')
      /\ IsFiniteSet(own(a)) /\ Cardinality(own(a)) <= Cardinality(own(a)')
  BY <1>1, <1>2, FS_Subset
<1>4. /\ Cardinality(homes(a)) \in Nat /\ Cardinality(homes(a)') \in Nat
      /\ Cardinality(own(a)) \in Nat /\ Cardinality(own(a)') \in Nat
  BY <1>1, <1>3, FS_CardinalityType
<1> QED BY <1>3, <1>4 DEF Earned

LEMMA EvidenceEarns ==
  ASSUME Exposure, NEW a \in Asset
  PROVE  Earned(a, resolveStatusFromEvidence(a, assets[a].org))
<1>1. users(a) \subseteq usedBy[a]
  BY Constants DEF Exposure, users
<1>2. /\ {HomeOf[u] : u \in users(a)} \subseteq homes(a)
      /\ {u \in users(a) : HomeOf[u] = assets[a].org} \subseteq own(a)
  BY <1>1 DEF homes, own
<1>3. IsFiniteSet(homes(a)) /\ IsFiniteSet(own(a))
  BY FinitelyUsed DEF Exposure
<1>4. /\ Cardinality({HomeOf[u] : u \in users(a)}) <= Cardinality(homes(a))
      /\ Cardinality({u \in users(a) : HomeOf[u] = assets[a].org}) <= Cardinality(own(a))
      /\ IsFiniteSet({HomeOf[u] : u \in users(a)})
      /\ IsFiniteSet({u \in users(a) : HomeOf[u] = assets[a].org})
  BY <1>2, <1>3, FS_Subset
<1>5. /\ Cardinality({HomeOf[u] : u \in users(a)}) \in Nat
      /\ Cardinality({u \in users(a) : HomeOf[u] = assets[a].org}) \in Nat
      /\ Cardinality(homes(a)) \in Nat /\ Cardinality(own(a)) \in Nat
  BY <1>3, <1>4, FS_CardinalityType
<1> QED BY <1>4, <1>5 DEF Earned, resolveStatusFromEvidence

\* What a step may do to the use of records.
LEMMA UseGrows ==
  ASSUME Exposure, [Next]_vars
  PROVE  /\ \A a \in Asset : usedBy[a] \subseteq usedBy'[a] /\ IsFiniteSet(usedBy'[a])
         /\ \A r \in Record : records'[r] \in Asset => AuthorOf[r] \in usedBy'[records'[r]]
<1> USE DEF Exposure
<1>1. CASE UNCHANGED <<records, usedBy>>
  BY <1>1
<1>2. ASSUME NEW r \in Record, NEW a \in Asset \cup {NoAsset},
             records' = [records EXCEPT ![r] = a],
             \A b \in Asset : usedBy'[b] = IF b = a THEN usedBy[b] \cup {AuthorOf[r]}
                                           ELSE usedBy[b]
      PROVE  /\ \A b \in Asset : usedBy[b] \subseteq usedBy'[b] /\ IsFiniteSet(usedBy'[b])
             /\ \A q \in Record : records'[q] \in Asset => AuthorOf[q] \in usedBy'[records'[q]]
  <2>1. \A b \in Asset : IsFiniteSet(usedBy[b] \cup {AuthorOf[r]})
    BY FS_AddElement
  <2>2. \A q \in Record : records'[q] = IF q = r THEN a ELSE records[q]
    BY <1>2 DEF Typed, TypeOK
  <2>3. \A b \in Asset : usedBy[b] \subseteq usedBy'[b] /\ IsFiniteSet(usedBy'[b])
    BY <1>2, <2>1
  <2>4. ASSUME NEW q \in Record, records'[q] \in Asset
        PROVE  AuthorOf[q] \in usedBy'[records'[q]]
    <3>1. CASE q = r
      <4>1. records'[q] = a
        BY <2>2, <3>1
      <4>2. usedBy'[a] = usedBy[a] \cup {AuthorOf[r]}
        BY <1>2, <2>4, <4>1
      <4> QED BY <3>1, <4>1, <4>2
    <3>2. CASE q # r
      BY <2>2, <2>3, <2>4, <3>2
    <3> QED BY <3>1, <3>2
  <2> QED BY <2>3, <2>4
<1>3. ASSUME NEW w \in Worker, NEW r \in Record, NEW a \in Asset, CreateRecord(w, r, a)
      PROVE  /\ records' = [records EXCEPT ![r] = a]
             /\ \A b \in Asset : usedBy'[b] = IF b = a THEN usedBy[b] \cup {AuthorOf[r]}
                                              ELSE usedBy[b]
  BY <1>3 DEF CreateRecord, Typed, TypeOK
<1>4. ASSUME NEW r \in Record, NEW a \in Asset \cup {NoAsset}, RepointRecord(r, a)
      PROVE  /\ records' = [records EXCEPT ![r] = a]
             /\ \A b \in Asset : usedBy'[b] = IF b = a THEN usedBy[b] \cup {AuthorOf[r]}
                                              ELSE usedBy[b]
  BY <1>4 DEF RepointRecord
<1>5. CASE UNCHANGED vars \/ \E w \in Worker : Step(w)
  BY <1>1, <1>5 DEF vars, Step, InsertAsset, InsertAlias, resolveCanonicalAsset, SelectMerged,
     MarkMerged, ListAliases, ReadTrusted, CollectEvidence, SelectTrusted, WriteTrust,
     WriteEdit
<1>6. CASE \E w \in Worker, o \in Organization, n \in Name, g \in Game : CreateAsset(w, o, n, g)
  BY <1>1, <1>6 DEF CreateAsset
<1>7. CASE \E w \in Worker, a, b \in Asset : MergeAsset(w, a, b)
  BY <1>1, <1>7 DEF MergeAsset
<1>8. CASE \E w \in Worker, a \in Asset : UpdateAsset(w, a)
  BY <1>1, <1>8 DEF UpdateAsset
<1>9. CASE \E w \in Worker, r \in Record, a \in Asset : CreateRecord(w, r, a)
  <2>1. PICK w \in Worker, r \in Record, a \in Asset : CreateRecord(w, r, a)
    BY <1>9
  <2>2. /\ a \in Asset \cup {NoAsset} /\ records' = [records EXCEPT ![r] = a]
        /\ \A b \in Asset : usedBy'[b] = IF b = a THEN usedBy[b] \cup {AuthorOf[r]}
                                         ELSE usedBy[b]
    BY <1>3, <2>1
  <2> QED BY <1>2, <2>2
<1>10. CASE \E r \in Record, a \in Asset \cup {NoAsset} : RepointRecord(r, a)
  BY <1>2, <1>4, <1>10
<1> QED BY <1>5, <1>6, <1>7, <1>8, <1>9, <1>10 DEF Next

\* What a step may do to the status of a record, and who does it.
LEMMA StatusSteps ==
  ASSUME Typed, [Next]_vars, NEW a \in Asset
  PROVE  /\ published \subseteq published'
         /\ \/ assets'[a].status = assets[a].status /\ assets'[a].org = assets[a].org
            \/ ~exists(a) /\ assets'[a].status = "candidate" /\ assets'[a].org \in Organization
            \/ \E w \in Worker : /\ task[w].at \in Writing /\ task[w].asset = a
                                 /\ assets'[a].status = task[w].row.status
                                 /\ assets'[a].org = assets[a].org
                                 /\ at(w, "edit") /\ task[w].status \in Status =>
                                      a \in published'
<1>1. CASE UNCHANGED <<assets, published>>
  BY <1>1
<1>2. ASSUME NEW w \in Worker, InsertAsset(w)
      PROVE  /\ published' = published
             /\ \/ assets'[a] = assets[a]
                \/ ~exists(a) /\ assets'[a].status = "candidate" /\ assets'[a].org \in Organization
  <2>1. task[w].row.status = "candidate" /\ task[w].row.org \in Organization
    BY <1>2 DEF InsertAsset, Typed, Sound
  <2>2. PICK b \in Asset : ~exists(b) /\ assets' = [assets EXCEPT ![b] = task[w].row]
    BY <1>2 DEF InsertAsset
  <2>3. \/ assets'[a] = assets[a]
        \/ ~exists(a) /\ assets'[a] = task[w].row
    BY <2>2 DEF Typed, TypeOK
  <2> QED BY <1>2, <2>1, <2>3 DEF InsertAsset
<1>3. ASSUME NEW w \in Worker, task[w].at \in Writing, updates(w)
      PROVE  \/ assets'[a] = assets[a]
             \/ /\ task[w].asset = a /\ assets'[a].status = task[w].row.status
                /\ assets'[a].org = assets[a].org
  BY <1>3, WriteTypes DEF RecordsStay
<1>4. ASSUME NEW w \in Worker, MarkMerged(w)
      PROVE  task[w].at \in Writing /\ updates(w) /\ published' = published /\ ~at(w, "edit")
  BY <1>4 DEF MarkMerged, at, Writing
<1>5. ASSUME NEW w \in Worker, WriteTrust(w)
      PROVE  task[w].at \in Writing /\ updates(w) /\ published' = published /\ ~at(w, "edit")
  BY <1>5 DEF WriteTrust, at, Writing
<1>6. ASSUME NEW w \in Worker, WriteEdit(w)
      PROVE  /\ task[w].at \in Writing /\ updates(w) /\ published \subseteq published'
             /\ task[w].status \in Status => task[w].asset \in published'
  BY <1>6, EditTypes DEF at, Writing
<1>7. CASE \E w \in Worker : Step(w)
  <2>1. PICK w \in Worker : Step(w)
    BY <1>7
  <2>2. CASE MarkMerged(w) \/ WriteTrust(w)
    BY <1>3, <1>4, <1>5, <2>2
  <2>3. CASE WriteEdit(w)
    BY <1>3, <1>6, <2>3
  <2> QED BY <1>1, <1>2, <2>1, <2>2, <2>3 DEF Step, InsertAlias, resolveCanonicalAsset,
       SelectMerged, ListAliases, ReadTrusted, CollectEvidence, SelectTrusted
<1> QED BY <1>1, <1>7 DEF Next, CreateAsset, MergeAsset, CreateRecord, RepointRecord,
     UpdateAsset, vars

\* The steps of one request leave what the others carry.
LEMMA OthersWait ==
  ASSUME Typed, [Next]_vars, NEW w \in Worker, task'[w] # task[w]
  PROVE  \A v \in Worker \ {w} : task'[v] = task[v]
<1>1. ASSUME NEW v \in Worker, \E t : task' = [task EXCEPT ![v] = t]
      PROVE  v = w /\ \A u \in Worker \ {w} : task'[u] = task[u]
  BY <1>1 DEF Typed
<1>2. CASE \E v \in Worker : Step(v)
  BY <1>1, <1>2 DEF goes, selects, ends, Step, InsertAsset, InsertAlias, resolveCanonicalAsset,
     SelectMerged, MarkMerged, ListAliases, ReadTrusted, CollectEvidence, SelectTrusted,
     WriteTrust, WriteEdit
<1>3. CASE \E v \in Worker, o \in Organization, n \in Name, g \in Game : CreateAsset(v, o, n, g)
  BY <1>1, <1>3 DEF CreateAsset, begins, goes
<1>4. CASE \E v \in Worker, a, b \in Asset : MergeAsset(v, a, b)
  BY <1>1, <1>4 DEF MergeAsset, begins, goes
<1>5. CASE \E v \in Worker, r \in Record, a \in Asset : CreateRecord(v, r, a)
  BY <1>1, <1>5 DEF CreateRecord, begins, goes
<1>6. CASE \E v \in Worker, a \in Asset : UpdateAsset(v, a)
  BY <1>1, <1>6 DEF UpdateAsset
<1>7. CASE task' = task
  BY <1>7
<1> QED BY <1>2, <1>3, <1>4, <1>5, <1>6, <1>7 DEF Next, vars, RepointRecord, edited

\* A recomputation about to write has its evidence, and so has the row it, a merge
\* or an edit is about to put back.
LEMMA CarriedSteps ==
  ASSUME Typed, [Next]_vars, NEW w \in Worker, task'[w] # task[w],
         task'[w].at \in Writing \cup {"trust"}
  PROVE  /\ task'[w].asset \in Asset /\ exists(task'[w].asset) /\ assets' = assets
         /\ \/ /\ task'[w].at = "trust"
               /\ task'[w].status = resolveStatusFromEvidence(task'[w].asset,
                                                              assets[task'[w].asset].org)
            \/ /\ task'[w].at = "promote" /\ at(w, "trust")
               /\ task'[w].asset = task[w].asset /\ task'[w].row.status = task[w].status
            \/ task'[w].at = "redirect" /\ task'[w].row.status = "merged"
            \/ /\ task'[w].at = "edit"
               /\ \/ /\ task'[w].row.status = assets[task'[w].asset].status
                     /\ task'[w].row.canonical = assets[task'[w].asset].canonical
                  \/ task'[w].row.status \in ByHand /\ task'[w].status \in Status
<1>1. ASSUME NEW v \in Worker, \E t : goes(v, t) PROVE v = w
  BY <1>1 DEF goes, Typed
<1>2. CASE \E v \in Worker : Step(v)
  <2>1. Step(w)
    <3>1. CASE \E v \in Worker : v # w /\ Step(v)
      BY <1>1, <3>1 DEF selects, ends, Step, InsertAsset, InsertAlias, resolveCanonicalAsset,
         SelectMerged, MarkMerged, ListAliases, ReadTrusted, CollectEvidence, SelectTrusted,
         WriteTrust, WriteEdit
    <3> QED BY <1>2, <3>1
  <2>2. task'[w] # idle
    BY DEF idle, Writing
  <2>3. ~InsertAsset(w)
    BY InsertTypes DEF Writing
  <2>4. ~InsertAlias(w)
    BY DEF InsertAlias, ends, goes, at, idle, Typed, Task, Writing
  <2>5. ~resolveCanonicalAsset(w)
    BY <2>2, ResolveTypes DEF Writing
  <2>6. CASE SelectMerged(w)
    <3>1. /\ task'[w].at = "redirect" /\ task'[w].asset = task[w].asset
          /\ Typed' /\ assets' = assets
      BY <2>6, SelectMergedTypes
    <3>2. task[w].asset \in Asset /\ exists(task[w].asset) /\ task'[w].row.status = "merged"
      BY <2>6, <3>1 DEF SelectMerged, Typed, Sound, at, Merging
    <3> QED BY <3>1, <3>2
  <2>7. ~MarkMerged(w)
    BY MarkTypes DEF Writing
  <2>8. ~ListAliases(w)
    BY ListTypes DEF Writing
  <2>9. ~ReadTrusted(w)
    BY ReadTypes DEF Writing
  <2>10. CASE CollectEvidence(w)
    <3>1. /\ task[w].asset \in Asset /\ task'[w].at = "trust"
          /\ task'[w].asset = task[w].asset
          /\ task'[w].status = resolveStatusFromEvidence(task[w].asset,
                                                         assets[task[w].asset].org)
      BY <2>2, <2>10, EvidenceTypes
    <3>2. exists(task[w].asset) /\ assets' = assets
      BY <2>10 DEF CollectEvidence, Typed, Sound, Trusting, at
    <3> QED BY <3>1, <3>2
  <2>11. CASE SelectTrusted(w)
    BY <2>11, SelectTrustedTypes
  <2>12. ~WriteTrust(w)
    BY <2>2, TrustTypes
  <2>13. ~WriteEdit(w)
    BY <2>2, EditTypes
  <2> QED BY <2>1, <2>3, <2>4, <2>5, <2>6, <2>7, <2>8, <2>9, <2>10, <2>11, <2>12, <2>13 DEF Step
<1>3. ASSUME NEW v \in Worker, NEW o \in Organization, NEW n \in Name, NEW g \in Game,
             CreateAsset(v, o, n, g)
      PROVE  FALSE
  <2>1. v = w
    BY <1>1, <1>3 DEF CreateAsset, begins
  <2> QED BY <1>3, <2>1, CreateTypes DEF Writing
<1>4. ASSUME NEW v \in Worker, NEW a \in Asset, NEW b \in Asset, MergeAsset(v, a, b) PROVE FALSE
  <2>1. v = w
    BY <1>1, <1>4 DEF MergeAsset, begins
  <2> QED BY <1>4, <2>1, MergeTypes DEF Writing
<1>5. ASSUME NEW v \in Worker, NEW r \in Record, NEW a \in Asset, CreateRecord(v, r, a)
      PROVE  FALSE
  <2>1. v = w
    BY <1>1, <1>5 DEF CreateRecord, begins
  <2> QED BY <1>5, <2>1, CreateRecordTypes DEF Writing
<1>6. CASE \E v \in Worker, a \in Asset : UpdateAsset(v, a)
  <2>1. PICK v \in Worker, a \in Asset : UpdateAsset(v, a)
    BY <1>6
  <2>2. v = w
    BY <2>1, UpdateTypes
  <2>3. /\ task'[w].asset = a /\ exists(a) /\ task'[w].at = "edit" /\ assets' = assets
        /\ \/ /\ task'[w].row.status = assets[a].status
              /\ task'[w].row.canonical = assets[a].canonical
           \/ task'[w].row.status \in ByHand /\ task'[w].status \in Status
    BY <2>1, <2>2, UpdateTypes
  <2> QED BY <2>3
<1>7. task' # task
  OBVIOUS
<1> QED BY <1>2, <1>3, <1>4, <1>5, <1>6, <1>7 DEF Next, vars, RepointRecord, edited

LEMMA ExposureInit == ASSUME Init PROVE Exposure
<1>1. Typed
  BY TypedInit
<1>2. \A a \in Asset : IsFiniteSet(usedBy[a])
  BY FS_EmptySet DEF Init
<1>3. \A r \in Record : records[r] \notin Asset
  BY Constants DEF Init
<1>4. \A a \in Asset \ {Unit} : assets[a].status = "absent" /\ ~exists(a)
  BY DEF Init, unborn, exists, Status
<1>5. \A w \in Worker : task[w].at = "idle"
  BY DEF Init, idle
<1> QED BY <1>1, <1>2, <1>3, <1>4, <1>5 DEF Exposure, Earned, at, Writing

LEMMA ExposureStep == ASSUME Exposure, [Next]_vars PROVE Exposure'
<1>1. Typed' /\ RecordsStay /\ published \subseteq published'
  BY TypedStep, StatusSteps, Constants DEF Exposure
<1>2. /\ \A a \in Asset : usedBy[a] \subseteq usedBy'[a] /\ IsFiniteSet(usedBy'[a])
      /\ \A r \in Record : records'[r] \in Asset => AuthorOf[r] \in usedBy'[records'[r]]
  BY UseGrows
<1>3. ASSUME NEW a \in Asset \ {Unit}, exists(a)' PROVE assets'[a].org \in Organization
  <2>1. CASE exists(a)
    BY <1>1, <2>1 DEF Exposure, RecordsStay
  <2>2. CASE ~exists(a)
    <3>1. assets'[a].status # assets[a].status
      BY <1>3, <2>2 DEF exists
    <3>2. ASSUME NEW w \in Worker, task[w].at \in Writing PROVE task[w].asset # a
      BY <2>2, <3>2 DEF Exposure, Typed, Sound, Trusting, Merging, Writing
    <3> QED BY <2>2, <3>1, <3>2, StatusSteps DEF Exposure
  <2> QED BY <2>1, <2>2
<1>4. ASSUME NEW a \in Asset, exists(a), NEW status, Earned(a, status) PROVE Earned(a, status)'
  BY <1>1, <1>2, <1>4, EarnedStays DEF RecordsStay
<1>5. ASSUME NEW a \in Asset \ {Unit}, a \notin published'
      PROVE  Earned(a, assets[a].status)'
  <2>1. CASE assets'[a].status \in {"candidate", "absent"}
    BY <2>1 DEF Earned
  <2>2. ASSUME NEW status, Earned(a, status), assets'[a].status = status, exists(a)
        PROVE  Earned(a, assets[a].status)'
    <3>1. Earned(a, status)'
      BY <1>4, <2>2
    <3> QED BY <2>2, <3>1 DEF Earned
  <2>3. a \notin published /\ Earned(a, assets[a].status)
    BY <1>1, <1>5 DEF Exposure
  <2>4. CASE assets'[a].status = assets[a].status
    <3>1. CASE exists(a)
      BY <2>2, <2>3, <2>4, <3>1
    <3>2. CASE ~exists(a)
      BY <2>1, <2>4, <3>2 DEF exists, Exposure, Typed, TypeOK
    <3> QED BY <3>1, <3>2
  <2>5. CASE \E w \in Worker : /\ task[w].at \in Writing /\ task[w].asset = a
                               /\ assets'[a].status = task[w].row.status
                               /\ at(w, "edit") /\ task[w].status \in Status => a \in published'
    <3>1. PICK w \in Worker : /\ task[w].at \in Writing /\ task[w].asset = a
                              /\ assets'[a].status = task[w].row.status
                              /\ at(w, "edit") /\ task[w].status \in Status => a \in published'
      BY <2>5
    <3>2. PICK status : status = task[w].row.status
      OBVIOUS
    <3>3. Earned(a, status)
      BY <1>5, <2>3, <3>1, <3>2 DEF Exposure
    <3>4. exists(a)
      BY <3>1 DEF Exposure, Typed, Sound, Trusting, Merging, Writing
    <3> QED BY <2>2, <3>1, <3>2, <3>3, <3>4
  <2> QED BY <2>1, <2>4, <2>5, StatusSteps DEF Exposure
<1>6. ASSUME NEW w \in Worker, at(w, "trust")'
      PROVE  Earned(task[w].asset, task[w].status)'
  <2>1. /\ task'[w].asset \in Asset /\ exists(task'[w].asset)
        /\ Earned(task'[w].asset, task'[w].status)
    <3>1. CASE task'[w] = task[w]
      BY <1>6, <3>1 DEF Exposure, Typed, Sound, Trusting, at
    <3>2. CASE task'[w] # task[w]
      BY <1>6, <3>2, CarriedSteps, EvidenceEarns DEF Exposure, at
    <3> QED BY <3>1, <3>2
  <2>2. PICK a, status : /\ a \in Asset
                         /\ a = task'[w].asset
                         /\ status = task'[w].status
    BY <2>1
  <2>3. Earned(a, status)'
    BY <1>4, <2>1, <2>2
  <2> QED BY <2>2, <2>3 DEF Earned, homes, own
<1>7. ASSUME NEW w \in Worker, task'[w].at \in Writing
      PROVE  \/ Earned(task[w].asset, task[w].row.status)'
             \/ task'[w].asset \in published' \cup {Unit}
             \/ task'[w].at = "edit" /\ task'[w].status \in Status
  <2>1. /\ task'[w].asset \in Asset /\ exists(task'[w].asset)
        /\ \/ Earned(task'[w].asset, task'[w].row.status)
           \/ task'[w].asset \in published \cup {Unit}
           \/ task'[w].at = "edit" /\ task'[w].status \in Status
    <3>1. CASE task'[w] = task[w]
      BY <1>7, <3>1 DEF Exposure, Typed, Sound, Trusting, Merging, Writing, at
    <3>2. CASE task'[w] # task[w]
      <4>1. PICK a \in Asset : a = task'[w].asset /\ exists(a)
        BY <1>7, <3>2, CarriedSteps DEF Exposure
      <4>2. CASE /\ at(w, "trust") /\ task'[w].asset = task[w].asset
                 /\ task'[w].row.status = task[w].status
        BY <4>1, <4>2 DEF Exposure
      <4>3. CASE task'[w].row.status = "merged"
        BY <4>1, <4>3 DEF Earned
      <4>4. CASE task'[w].row.status = assets[a].status
        BY <4>1, <4>4 DEF Exposure
      <4> QED BY <1>7, <3>2, <4>1, <4>2, <4>3, <4>4, CarriedSteps DEF Exposure, Writing
    <3> QED BY <3>1, <3>2
  <2>2. PICK a, status : /\ a \in Asset
                         /\ a = task'[w].asset
                         /\ status = task'[w].row.status
    BY <2>1
  <2>3. Earned(a, status) => Earned(a, status)'
    BY <1>4, <2>1, <2>2
  <2>4. Earned(a, status)' => Earned(task[w].asset, task[w].row.status)'
    BY <2>2 DEF Earned, homes, own
  <2> QED BY <1>1, <2>1, <2>2, <2>3, <2>4
<1> QED BY <1>1, <1>2, <1>3, <1>5, <1>6, <1>7 DEF Exposure, at

\* Controlled exposure, for any number of organizations and overlapping requests:
\* no name or image of an asset reaches another organization before the use of two
\* organizations, or as a similar one of two users of its own, has earned it.
THEOREM ExposureIsControlled == Spec => []ControlledExposure
<1>1. Init => Exposure
  BY ExposureInit
<1>2. Exposure /\ [Next]_vars => Exposure'
  BY ExposureStep
<1>3. ASSUME Exposure PROVE ControlledExposure
  <2>1. ASSUME NEW a \in Asset \ (published \cup {Unit}), NEW o \in Organization,
               exists(a), o # assets[a].org
        PROVE  /\ isVisibleForOrganization(a, o) => Cardinality(homes(a)) >= 2
               /\ isSuggestibleForOrganization(a, o) =>
                    Cardinality(homes(a)) >= 2 \/ Cardinality(own(a)) >= 2
    <3>1. assets[a].org # Global /\ Earned(a, assets[a].status)
      BY <1>3, <2>1, Constants DEF Exposure
    <3> QED BY <2>1, <3>1 DEF isVisibleForOrganization, isSuggestibleForOrganization, Earned
  <2> QED BY <2>1 DEF ControlledExposure, homes, own
<1> QED BY <1>1, <1>2, <1>3, PTL DEF Spec

-------------------------------------------------------------------------------
(* Chains of merged records.  What a walk along any function sees.          *)

Walk(F, x) ==
  {b \in Asset : \A S \in SUBSET Asset : x \in S /\ (\A c \in S : F[c] \in S) => b \in S}

LEMMA WalkIsClosed ==
  ASSUME NEW F \in [Asset -> Asset], NEW x \in Asset
  PROVE  /\ x \in Walk(F, x)
         /\ \A c \in Walk(F, x) : F[c] \in Walk(F, x)
BY DEF Walk

LEMMA WalkIsLeast ==
  ASSUME NEW F \in [Asset -> Asset], NEW x \in Asset, NEW S \in SUBSET Asset,
         x \in S, \A c \in S : F[c] \in S
  PROVE  Walk(F, x) \subseteq S
BY DEF Walk

\* A walk that left M leaves N, when from the members of N one comes out of N or
\* goes on as before through M.
LEMMA WalkLeaves ==
  ASSUME NEW F \in [Asset -> Asset], NEW G \in [Asset -> Asset], NEW x \in Asset,
         NEW M, NEW N,
         \A c \in N : G[c] \notin N \/ (G[c] = F[c] /\ c \in M),
         \E e \in Walk(F, x) : e \notin M
  PROVE  \E e \in Walk(G, x) : e \notin N
<1> SUFFICES ASSUME Walk(G, x) \subseteq N PROVE FALSE
  OBVIOUS
<1>1. \A c \in Walk(G, x) : G[c] = F[c] /\ c \in M
  BY WalkIsClosed
<1>2. x \in Walk(G, x) /\ \A c \in Walk(G, x) : F[c] \in Walk(G, x)
  BY <1>1, WalkIsClosed
<1>3. Walk(G, x) \in SUBSET Asset
  BY DEF Walk
<1>4. Walk(F, x) \subseteq Walk(G, x)
  BY <1>2, <1>3, WalkIsLeast
<1> QED BY <1>1, <1>4

\* A walk has at most one end: the record a merged one stands for is one.
LEMMA WalkEndsOnce ==
  ASSUME NEW F \in [Asset -> Asset], NEW x \in Asset,
         NEW d \in Walk(F, x), NEW e \in Walk(F, x), F[d] = d, F[e] = e
  PROVE  d = e
<1> DEFINE S == {c \in Walk(F, x) : e \in Walk(F, c)}
<1>1. x \in S
  BY WalkIsClosed
<1>2. ASSUME NEW c \in S PROVE F[c] \in S
  <2>1. c \in Asset /\ F[c] \in Walk(F, x) /\ F[c] \in Asset
    BY WalkIsClosed DEF Walk
  <2>2. CASE c = e
    BY <2>2
  <2>3. CASE c # e
    <3> DEFINE T == Walk(F, F[c]) \cup {c}
    <3>1. T \in SUBSET Asset
      BY <2>1 DEF Walk
    <3>2. c \in T /\ \A b \in T : F[b] \in T
      BY <2>1, WalkIsClosed
    <3>3. Walk(F, c) \subseteq T
      <4> HIDE DEF T
      <4> QED BY <2>1, <3>1, <3>2, WalkIsLeast
    <3> QED BY <2>1, <2>3, <3>3
  <2> QED BY <2>2, <2>3
<1>3. S \in SUBSET Asset
  BY DEF Walk
<1>4. Walk(F, x) \subseteq S
  BY <1>1, <1>2, <1>3, WalkIsLeast
<1>5. e \in Walk(F, d) /\ d \in Asset
  BY <1>4 DEF Walk
<1>6. Walk(F, d) \subseteq {d}
  <2> DEFINE T == {d}
  <2>1. T \in SUBSET Asset /\ d \in T /\ \A b \in T : F[b] \in T
    BY <1>5
  <2> HIDE DEF T
  <2>2. Walk(F, d) \subseteq T
    BY <1>5, <2>1, WalkIsLeast
  <2> QED BY <2>2 DEF T
<1> QED BY <1>5, <1>6

links == [c \in Asset |-> follow(c)]

LEMMA LinksType == ASSUME TypeOK PROVE links \in [Asset -> Asset]
BY DEF TypeOK, links, follow, redirected

LEMMA SeenWalks == ASSUME NEW a \in Asset PROVE seen(a) = Walk(links, a)
BY DEF seen, Walk, links

\* The record that stands for another is one.
LEMMA CanonicalIsOne ==
  ASSUME TypeOK, NEW a \in Asset, NEW d \in canonical(a), NEW e \in canonical(a)
  PROVE  d = e
<1>1. /\ d \in Walk(links, a) /\ e \in Walk(links, a)
      /\ links[d] = d /\ links[e] = e
  BY SeenWalks DEF canonical, seen, links, follow
<1> QED BY <1>1, LinksType, WalkEndsOnce

-------------------------------------------------------------------------------
(* The chains of a table T: where its merged records lead.                  *)

linksOf(T) ==
  [c \in Asset |-> IF T[c].status = "merged" /\ T[c].canonical # NoAsset
                  THEN T[c].canonical ELSE c]

Ends(T) == \A x \in Asset : \E e \in Walk(linksOf(T), x) : T[e].status # "merged"

\* Chains still end when each merged record of the new table was one before and leads
\* where it led, or leads to one that is not merged.
LEMMA EndsStay ==
  ASSUME NEW T \in [Asset -> Row], NEW U \in [Asset -> Row], Ends(T),
         \A c \in Asset : U[c].status = "merged" =>
           \/ T[c].status = "merged" /\ T[c].canonical = U[c].canonical
           \/ U[c].canonical \in Asset /\ U[U[c].canonical].status # "merged"
  PROVE  Ends(U)
<1> DEFINE F == linksOf(T)
           G == linksOf(U)
           M == {c \in Asset : T[c].status = "merged"}
           N == {c \in Asset : U[c].status = "merged"}
<1>1. F \in [Asset -> Asset] /\ G \in [Asset -> Asset]
  BY DEF linksOf, Row
<1>2. ASSUME NEW c \in N PROVE G[c] \notin N \/ (G[c] = F[c] /\ c \in M)
  BY <1>2, Constants DEF linksOf
<1>3. ASSUME NEW x \in Asset PROVE \E e \in Walk(G, x) : U[e].status # "merged"
  <2>1. \E e \in Walk(F, x) : e \notin M
    BY DEF Ends
  <2>2. \E e \in Walk(G, x) : e \notin N
    <3> HIDE DEF F, G, M, N
    <3> QED BY <1>1, <1>2, <2>1, WalkLeaves
  <2>3. Walk(G, x) \subseteq Asset
    BY DEF Walk
  <2> QED BY <2>2, <2>3
<1> QED BY <1>3 DEF Ends

LEMMA EndsAtRecord ==
  ASSUME Ends(assets), NEW a \in Asset
  PROVE  \E b \in canonical(a) : assets[b].status # "merged"
<1>1. PICK b \in Walk(linksOf(assets), a) : assets[b].status # "merged"
  BY DEF Ends
<1>2. linksOf(assets) = links
  BY DEF linksOf, links, follow, redirected
<1>3. b \in seen(a)
  BY <1>1, <1>2, SeenWalks
<1> QED BY <1>1, <1>3 DEF canonical, redirected

-------------------------------------------------------------------------------
(* Merges and edits that do not overlap.  An edit holds the row it read     *)
(* while recomputations write: what counts is that the table it will leave  *)
(* has chains that end, too.                                                *)

\* A merge under way, before it marks its record.
Apart(w) ==
  task[w].at \in {"merge", "mark", "redirect"} =>
    /\ task[w].asset # task[w].target
    /\ assets[task[w].asset].status # "merged"
    /\ assets[task[w].target].status # "merged"

\* The table an UPDATE will leave.
Pending(w) == [assets EXCEPT ![task[w].asset] = task[w].row]

Chains ==
  /\ Typed
  /\ \A v, w \in Worker : task[v].at \in Changing /\ task[w].at \in Changing => v = w
  /\ \A w \in Worker : Apart(w)
  /\ Ends(assets)
  /\ \A w \in Worker : task[w].at = "edit" => Ends(Pending(w))

LEMMA ChainsInit == ASSUME Init PROVE Chains
<1>1. \A w \in Worker : task[w].at = "idle"
  BY DEF Init, idle
<1>2. \A a \in Asset : assets[a].status # "merged"
  BY DEF Init, unborn
<1>3. ASSUME NEW a \in Asset PROVE a \in Walk(linksOf(assets), a)
  BY DEF Walk
<1> QED BY <1>1, <1>2, <1>3, TypedInit DEF Chains, Ends, Apart, Changing, Merging

\* A record becomes a merged one, or leads elsewhere, only by a merge or where an edit
\* puts back what it read.
LEMMA MergedSteps ==
  ASSUME Typed, [Next]_vars, NEW c \in Asset, assets'[c].status = "merged"
  PROVE  \/ assets[c].status = "merged" /\ assets'[c].canonical = assets[c].canonical
         \/ \E w \in Worker : /\ MarkMerged(w) /\ c = task[w].asset
                              /\ assets'[c].canonical = task[w].target
         \/ \E w \in Worker : WriteEdit(w) /\ c = task[w].asset
<1>1. CASE assets' = assets
  BY <1>1
<1>2. ASSUME NEW w \in Worker, InsertAsset(w)
      PROVE  assets'[c] = assets[c]
  <2>1. task[w].row.status = "candidate"
    BY <1>2 DEF InsertAsset, Typed, Sound
  <2>2. PICK b \in Asset : assets' = [assets EXCEPT ![b] = task[w].row]
    BY <1>2 DEF InsertAsset
  <2> QED BY <2>1, <2>2 DEF Typed, TypeOK
<1>3. ASSUME NEW w \in Worker, MarkMerged(w)
      PROVE  assets'[c] = assets[c] \/ (c = task[w].asset /\ assets'[c].canonical = task[w].target)
  BY <1>3, MarkTypes
<1>4. ASSUME NEW w \in Worker, WriteTrust(w) PROVE assets'[c] = assets[c]
  <2>1. /\ task[w].row.status \in Trust
        /\ \A b \in Asset \ {task[w].asset} : assets'[b] = assets[b]
        /\ assets'[task[w].asset] = task[w].row
    BY <1>4, TrustTypes
  <2> QED BY <2>1 DEF Trust
<1>5. ASSUME NEW w \in Worker, WriteEdit(w)
      PROVE  assets'[c] = assets[c] \/ c = task[w].asset
  BY <1>5, EditTypes
<1>6. CASE \E w \in Worker : Step(w)
  BY <1>1, <1>2, <1>3, <1>4, <1>5, <1>6 DEF Step, InsertAlias, resolveCanonicalAsset,
     SelectMerged, ListAliases, ReadTrusted, CollectEvidence, SelectTrusted
<1> QED BY <1>1, <1>6 DEF Next, CreateAsset, MergeAsset, CreateRecord, RepointRecord,
     UpdateAsset, vars

\* A request that begins to change records began alone.
LEMMA WorkSteps ==
  ASSUME Typed, [Next]_vars, NEW w \in Worker, task'[w] # task[w],
         task'[w].at \in Changing
  PROVE  task[w].at \in Changing \/ permitted
<1>1. ASSUME NEW v \in Worker, \E t : goes(v, t) PROVE v = w
  BY <1>1 DEF goes, Typed
<1>2. CASE \E v \in Worker : Step(v)
  <2>1. Step(w)
    <3>1. CASE \E v \in Worker : v # w /\ Step(v)
      BY <1>1, <3>1 DEF selects, ends, Step, InsertAsset, InsertAlias, resolveCanonicalAsset,
         SelectMerged, MarkMerged, ListAliases, ReadTrusted, CollectEvidence, SelectTrusted,
         WriteTrust, WriteEdit
    <3> QED BY <1>2, <3>1
  <2>2. CASE InsertAsset(w) \/ InsertAlias(w) \/ resolveCanonicalAsset(w) \/ SelectMerged(w)
             \/ MarkMerged(w) \/ ListAliases(w) \/ WriteEdit(w)
    BY <2>2 DEF InsertAsset, InsertAlias, resolveCanonicalAsset, SelectMerged, MarkMerged,
       ListAliases, WriteEdit, at, Changing, Merging
  <2>3. ~ReadTrusted(w)
    BY ReadTypes DEF Changing, Merging
  <2>4. ~CollectEvidence(w)
    BY EvidenceTypes DEF Changing, Merging, idle
  <2>5. ~SelectTrusted(w)
    BY SelectTrustedTypes DEF Changing, Merging
  <2>6. ~WriteTrust(w)
    BY TrustTypes DEF Changing, Merging, idle
  <2> QED BY <2>1, <2>2, <2>3, <2>4, <2>5, <2>6 DEF Step
<1>3. CASE \E v \in Worker, o \in Organization, n \in Name, g \in Game : CreateAsset(v, o, n, g)
  BY <1>3 DEF CreateAsset
<1>4. CASE \E v \in Worker, a, b \in Asset : MergeAsset(v, a, b)
  BY <1>4 DEF MergeAsset
<1>5. CASE \E v \in Worker, r \in Record, a \in Asset : CreateRecord(v, r, a)
  <2>1. PICK v \in Worker, r \in Record, a \in Asset : CreateRecord(v, r, a)
    BY <1>5
  <2>2. v = w
    BY <1>1, <2>1 DEF CreateRecord, begins
  <2> QED BY <2>1, <2>2, CreateRecordTypes DEF Changing, Merging
<1>6. CASE \E v \in Worker, a \in Asset : UpdateAsset(v, a)
  BY <1>6 DEF UpdateAsset
<1>7. task' # task
  OBVIOUS
<1> QED BY <1>2, <1>3, <1>4, <1>5, <1>6, <1>7 DEF Next, vars, RepointRecord, edited

LEMMA StaysAlone ==
  ASSUME ~ChangesOverlap, Chains, [Next]_vars, NEW v \in Worker, NEW w \in Worker,
         task'[v].at \in Changing, task'[w].at \in Changing
  PROVE  v = w
<1> SUFFICES ASSUME v # w PROVE FALSE
  OBVIOUS
<1>1. ASSUME permitted, NEW u \in Worker PROVE task[u].at \notin Changing
  BY <1>1 DEF permitted, Changing, Merging
<1>2. task'[v] # task[v] => task'[w] = task[w]
  BY OthersWait DEF Chains
<1>3. task[v].at \in Changing \/ permitted
  BY WorkSteps DEF Chains
<1>4. task[w].at \in Changing \/ permitted
  BY WorkSteps DEF Chains
<1> QED BY <1>1, <1>2, <1>3, <1>4 DEF Chains

\* While a request is changing records, nobody else turns one into a merged record.
LEMMA NobodyMerges ==
  ASSUME ~ChangesOverlap, Chains, [Next]_vars, NEW w \in Worker,
         task'[w].at \in Changing \ {"list"}, NEW c \in Asset, assets'[c].status = "merged"
  PROVE  assets[c].status = "merged" /\ assets'[c].canonical = assets[c].canonical
<1>1. ASSUME NEW v \in Worker, MarkMerged(v) PROVE FALSE
  <2>1. task'[v].at = "list"
    BY <1>1, MarkTypes DEF Chains
  <2>2. v = w
    BY <2>1, StaysAlone DEF Changing, Merging
  <2> QED BY <2>1, <2>2
<1>2. ASSUME NEW v \in Worker, WriteEdit(v) PROVE FALSE
  <2>1. task'[v] = idle /\ task[v].at = "edit"
    BY <1>2, EditTypes DEF Chains, at
  <2>2. v # w /\ task'[v] # task[v]
    BY <2>1 DEF idle, Changing, Merging
  <2>3. task'[w] = task[w]
    BY <2>2, OthersWait DEF Chains
  <2> QED BY <2>1, <2>2, <2>3 DEF Chains, Changing
<1> QED BY <1>1, <1>2, MergedSteps DEF Chains

\* A merge whose target is not merged resolves to that target.
LEMMA ResolvesToTarget ==
  ASSUME NEW t \in Asset, NEW b \in canonical(t), assets[t].status # "merged"
  PROVE  b = t
<1> DEFINE S == {t}
<1>1. S \in SUBSET Asset /\ t \in S /\ \A c \in S : follow(c) \in S
  BY DEF follow, redirected
<1>2. b \in S
  BY <1>1 DEF canonical, seen
<1> QED BY <1>2

LEMMA StaysApart ==
  ASSUME ~ChangesOverlap, Chains, [Next]_vars, NEW w \in Worker
  PROVE  Apart(w)'
<1> SUFFICES ASSUME task'[w].at \in {"merge", "mark", "redirect"} PROVE Apart(w)'
  BY DEF Apart
<1>1. task'[w].at \in Changing \ {"list"}
  BY DEF Changing, Merging
<1>2. ASSUME NEW a \in Asset, assets[a].status # "merged" PROVE assets'[a].status # "merged"
  BY <1>1, <1>2, NobodyMerges
<1>3. ASSUME task'[w].asset \in Asset, task'[w].target \in Asset,
             task'[w].asset # task'[w].target,
             assets[task'[w].asset].status # "merged",
             assets[task'[w].target].status # "merged"
      PROVE  Apart(w)'
  BY <1>2, <1>3 DEF Apart
<1>4. CASE task'[w] = task[w]
  BY <1>3, <1>4 DEF Chains, Apart, Typed, Sound, Merging
<1>5. ASSUME NEW a \in Asset, NEW b \in Asset, MergeAsset(w, a, b) PROVE Apart(w)'
  <2>1. task'[w].asset = a /\ task'[w].target = b
    BY <1>5, MergeTypes DEF Chains
  <2> QED BY <1>3, <1>5, <2>1 DEF MergeAsset, mergeable
<1>6. CASE resolveCanonicalAsset(w)
  <2>1. task'[w] # idle
    BY DEF idle
  <2>2. /\ task'[w].asset = task[w].asset
        /\ task'[w].target \in canonical(task[w].target)
    BY <1>6, <2>1, ResolveTypes DEF Chains
  <2>3. /\ task[w].asset \in Asset /\ task[w].target \in Asset
        /\ task[w].asset # task[w].target
        /\ assets[task[w].asset].status # "merged"
        /\ assets[task[w].target].status # "merged"
    BY <1>6 DEF resolveCanonicalAsset, Chains, Apart, Typed, Sound, Merging, at
  <2>4. task'[w].target = task[w].target
    BY <2>2, <2>3, ResolvesToTarget
  <2> QED BY <1>3, <2>2, <2>3, <2>4
<1>7. CASE SelectMerged(w)
  <2>1. /\ task'[w].asset = task[w].asset /\ task'[w].target = task[w].target
        /\ task[w].at = "mark"
    BY <1>7, SelectMergedTypes DEF Chains, at
  <2> QED BY <1>3, <2>1 DEF Chains, Apart, Typed, Sound, Merging
<1>8. CASE task'[w] # task[w]
  <2>1. ASSUME NEW v \in Worker, v # w, \E t : goes(v, t) PROVE FALSE
    BY <1>8, <2>1 DEF goes, Chains, Typed
  <2>2. CASE \E v \in Worker : v # w /\ Step(v)
    BY <2>1, <2>2 DEF selects, ends, Step, InsertAsset, InsertAlias, resolveCanonicalAsset,
       SelectMerged, MarkMerged, ListAliases, ReadTrusted, CollectEvidence, SelectTrusted,
       WriteTrust, WriteEdit
  <2>3. CASE Step(w)
    <3>1. ~InsertAsset(w)
      BY InsertTypes DEF Chains
    <3>2. ~InsertAlias(w)
      BY DEF InsertAlias, ends, goes, at, idle, Chains, Typed, Task
    <3>3. ~MarkMerged(w)
      BY MarkTypes DEF Chains
    <3>4. ~ListAliases(w)
      BY ListTypes DEF Chains
    <3>5. ~ReadTrusted(w)
      BY ReadTypes DEF Chains
    <3>6. ~CollectEvidence(w)
      BY EvidenceTypes DEF Chains, idle
    <3>7. ~SelectTrusted(w)
      BY SelectTrustedTypes DEF Chains
    <3>8. ~WriteTrust(w) /\ ~WriteEdit(w)
      BY TrustTypes, EditTypes DEF Chains, idle
    <3> QED BY <1>6, <1>7, <2>3, <3>1, <3>2, <3>3, <3>4, <3>5, <3>6, <3>7, <3>8 DEF Step
  <2>4. CASE \E v \in Worker, o \in Organization, n \in Name, g \in Game : CreateAsset(v, o, n, g)
    <3>1. PICK v \in Worker, o \in Organization, n \in Name, g \in Game :
            CreateAsset(v, o, n, g)
      BY <2>4
    <3>2. v = w
      BY <2>1, <3>1 DEF CreateAsset, begins
    <3> QED BY <3>1, <3>2, CreateTypes DEF Chains
  <2>5. CASE \E v \in Worker, a, b \in Asset : MergeAsset(v, a, b)
    BY <1>5, <2>1, <2>5 DEF MergeAsset, begins
  <2>6. CASE \E v \in Worker, r \in Record, a \in Asset : CreateRecord(v, r, a)
    <3>1. PICK v \in Worker, r \in Record, a \in Asset : CreateRecord(v, r, a)
      BY <2>6
    <3>2. v = w
      BY <2>1, <3>1 DEF CreateRecord, begins
    <3> QED BY <3>1, <3>2, CreateRecordTypes DEF Chains
  <2>7. CASE \E v \in Worker, a \in Asset : UpdateAsset(v, a)
    <3>1. PICK v \in Worker, a \in Asset : UpdateAsset(v, a)
      BY <2>7
    <3>2. v = w /\ task'[v].at = "edit"
      BY <1>8, <3>1, UpdateTypes DEF Chains
    <3> QED BY <3>2
  <2>8. task' # task
    BY <1>8
  <2> QED BY <2>2, <2>3, <2>4, <2>5, <2>6, <2>7, <2>8 DEF Next, vars, RepointRecord, edited
<1> QED BY <1>4, <1>8

LEMMA WalksEnd ==
  ASSUME Chains, [Next]_vars
  PROVE  Ends(assets')
<1>1. assets \in [Asset -> Row] /\ assets' \in [Asset -> Row]
  BY TypedStep DEF Chains, Typed, TypeOK, Row
<1>2. ASSUME NEW w \in Worker, WriteEdit(w) PROVE Ends(assets')
  <2>1. task[w].at = "edit" /\ assets' = Pending(w)
    BY <1>2 DEF WriteEdit, at, updates, Pending
  <2>2. Ends(Pending(w))
    BY <2>1 DEF Chains
  <2> QED BY <2>1, <2>2
<1>3. ASSUME ~\E w \in Worker : WriteEdit(w) PROVE Ends(assets')
  <2>1. ASSUME NEW c \in Asset, assets'[c].status = "merged"
        PROVE  \/ assets[c].status = "merged" /\ assets[c].canonical = assets'[c].canonical
               \/ /\ assets'[c].canonical \in Asset
                  /\ assets'[assets'[c].canonical].status # "merged"
    <3>1. ASSUME NEW w \in Worker, MarkMerged(w), c = task[w].asset,
                 assets'[c].canonical = task[w].target
          PROVE  /\ assets'[c].canonical \in Asset
                 /\ assets'[assets'[c].canonical].status # "merged"
      <4>1. /\ task[w].target \in Asset /\ task[w].target # c
            /\ assets[task[w].target].status # "merged"
        BY <3>1 DEF MarkMerged, Chains, Apart, Typed, Sound, Merging, at
      <4>2. assets'[task[w].target] = assets[task[w].target]
        BY <3>1, <4>1, MarkTypes DEF Chains
      <4> QED BY <3>1, <4>1, <4>2
    <3> QED BY <1>3, <2>1, <3>1, MergedSteps DEF Chains
  <2>2. Ends(assets)
    BY DEF Chains
  <2> QED BY <1>1, <2>1, <2>2, EndsStay
<1> QED BY <1>2, <1>3

\* The table that an edit will leave keeps chains that end, whatever is recomputed
\* before it writes.
LEMMA PendingEnds ==
  ASSUME ~ChangesOverlap, "merged" \notin ByHand, Chains, [Next]_vars, NEW w \in Worker,
         task'[w].at = "edit"
  PROVE  Ends(Pending(w)')
<1> DEFINE a == task'[w].asset
           row == task'[w].row
           U == [assets' EXCEPT ![a] = row]
<1>1. Typed'
  BY TypedStep DEF Chains
<1>2. /\ assets \in [Asset -> Row] /\ assets' \in [Asset -> Row]
      /\ a \in Asset /\ row \in Row
  BY <1>1 DEF Chains, Typed, TypeOK, Row, Task, Sound
<1>3. U \in [Asset -> Row] /\ Pending(w)' = U
  BY <1>2 DEF Pending
<1>4. U[a] = row /\ \A c \in Asset \ {a} : U[c] = assets'[c]
  BY <1>2
<1>5. ASSUME NEW c \in Asset, assets'[c].status = "merged"
      PROVE  assets[c].status = "merged" /\ assets'[c].canonical = assets[c].canonical
  BY <1>5, NobodyMerges DEF Changing
<1>6. ASSUME NEW T \in [Asset -> Row], Ends(T),
             row.status = "merged" => T[a].status = "merged" /\ T[a].canonical = row.canonical,
             \A c \in Asset \ {a} : T[c] = assets[c]
      PROVE  Ends(U)
  <2>1. ASSUME NEW c \in Asset, U[c].status = "merged"
        PROVE  T[c].status = "merged" /\ T[c].canonical = U[c].canonical
    <3> HIDE DEF U, a, row
    <3>1. CASE c = a
      BY <1>4, <1>6, <2>1, <3>1
    <3>2. CASE c # a
      BY <1>4, <1>5, <1>6, <2>1, <3>2
    <3> QED BY <3>1, <3>2
  <2> HIDE DEF U
  <2> QED BY <1>3, <1>6, <2>1, EndsStay
<1>7. CASE task'[w] = task[w]
  <2> DEFINE T == Pending(w)
  <2>1. T = [assets EXCEPT ![a] = row]
    BY <1>7 DEF Pending
  <2>2. T \in [Asset -> Row] /\ T[a] = row /\ \A c \in Asset \ {a} : T[c] = assets[c]
    BY <1>2, <2>1
  <2>3. Ends(T)
    BY <1>7 DEF Chains
  <2> HIDE DEF T, U
  <2> QED BY <1>3, <1>6, <2>2, <2>3
<1>8. CASE task'[w] # task[w]
  <2>1. \/ row.status = assets[a].status /\ row.canonical = assets[a].canonical
        \/ row.status \in ByHand
    BY <1>8, CarriedSteps DEF Chains, Writing
  <2>2. Ends(assets)
    BY DEF Chains
  <2> HIDE DEF U, a, row
  <2>3. row.status = "merged" =>
          assets[a].status = "merged" /\ assets[a].canonical = row.canonical
    BY <2>1
  <2> QED BY <1>2, <1>3, <1>6, <2>2, <2>3
<1> QED BY <1>7, <1>8

\* Old references resolve, for any number of records, of merges and of edits one after
\* the other, whatever is recomputed between and during them, from rows however old:
\* where the creations, the merges and the edits do not overlap one another and no
\* manager sets the status of a merged record by hand, every record leads to one that
\* is not merged.
THEOREM ReferencesResolve ==
  ASSUME ~ChangesOverlap, "merged" \notin ByHand
  PROVE  Spec => []OldReferencesResolve
<1>1. Init => Chains
  BY ChainsInit
<1>2. Chains /\ [Next]_vars => Chains'
  <2> SUFFICES ASSUME Chains, [Next]_vars PROVE Chains'
    OBVIOUS
  <2>1. Typed'
    BY TypedStep DEF Chains
  <2>2. Ends(assets')
    BY WalksEnd
  <2>3. ASSUME NEW w \in Worker PROVE Apart(w)' /\ (task'[w].at = "edit" => Ends(Pending(w)'))
    BY StaysApart, PendingEnds
  <2>4. ASSUME NEW v \in Worker, NEW w \in Worker,
               task'[v].at \in Changing, task'[w].at \in Changing
        PROVE  v = w
    BY <2>4, StaysAlone
  <2>5. Ends(assets)'
    BY <2>2 DEF Ends, Walk, linksOf
  <2>6. ASSUME NEW w \in Worker, task'[w].at = "edit" PROVE Ends(Pending(w))'
    BY <2>3, <2>6 DEF Ends, Walk, linksOf
  <2> QED BY <2>1, <2>3, <2>4, <2>5, <2>6 DEF Chains
<1>3. Chains => OldReferencesResolve
  BY EndsAtRecord DEF Chains, OldReferencesResolve
<1> QED BY <1>1, <1>2, <1>3, PTL DEF Spec
================================================================================
