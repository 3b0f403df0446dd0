--------------------------------- MODULE Assets ---------------------------------
(***************************************************************************)
(* The assets an organization trades in (services/assets, modules/assets): *)
(* creation behind the detection of duplicates, trust earned by use in the *)
(* ledger, the merge of one record into another, the edits of a manager.   *)
(*                                                                         *)
(* A request runs on a worker, one statement of a repository per step: an  *)
(* update of assets is two, the SELECT of the row and the UPDATE that puts *)
(* every column of that row back, the changed ones changed.                *)
(* Requests interleave, and one that stops half way takes no further       *)
(* step, as nothing here is fair.  A Name is a normalized name.  A Record  *)
(* is an event or a settlement: whatever its asset_id or unit_asset_id     *)
(* names, of any organization, counts as used.                             *)
(***************************************************************************)
EXTENDS Naturals, FiniteSets

CONSTANTS Asset, Name, Game, User, Organization, Record, Worker,
          HomeOf,     \* the organization a user works in
          AuthorOf,   \* the user who creates a record
          Similar,    \* pairs of names that isPossibleMatch, the equal ones too
          Prefixed,   \* pairs <<n, m>> of names where m begins with n
          Unit, UnitGame, UnitName,     \* the seeded default settlement unit
          NoAsset, Global,
          ChangesOverlap, \* whether creations, merges and edits overlap one another
          ByHand,        \* bounds the statuses a manager sets
          MaxEdits       \* bounds the edits of records and assets

ASSUME AssetConstants ==
  /\ Unit \in Asset /\ UnitGame \in Game /\ UnitName \in Name
  /\ NoAsset \notin Asset /\ "unborn" \notin Asset \cup {NoAsset}
  /\ Global \notin Organization
  /\ HomeOf \in [User -> Organization] /\ AuthorOf \in [Record -> User]
  /\ Prefixed \subseteq Similar /\ Similar \subseteq Name \X Name
  /\ \A n \in Name : <<n, n>> \in Prefixed
  /\ ChangesOverlap \in BOOLEAN /\ MaxEdits \in Nat

Status == {"candidate", "org_verified", "active", "merged", "deprecated"}

ASSUME StatusesByHand == ByHand \subseteq Status

VARIABLES
  assets,    \* status, canonical_asset_id, normalized_name, game and organization
  aliases,   \* the normalized aliases of an asset
  records,   \* the asset a record names
  task, edits,
  usedBy,    \* history: whose records have named the asset
  published  \* history: the assets whose status a manager has set

vars == <<assets, aliases, records, task, edits, usedBy, published>>

unborn == [status |-> "absent", canonical |-> NoAsset, name |-> UnitName,
           game |-> UnitGame, org |-> Global]

idle == [at |-> "idle", asset |-> NoAsset, target |-> NoAsset, status |-> "absent",
         names |-> {}, row |-> unborn]

Init ==
  /\ assets = [a \in Asset |-> IF a = Unit THEN [unborn EXCEPT !.status = "active"]
                               ELSE unborn]
  /\ aliases = [a \in Asset |-> {}]
  /\ records = [r \in Record |-> "unborn"]
  /\ task = [w \in Worker |-> idle]
  /\ edits = 0
  /\ usedBy = [a \in Asset |-> {}]
  /\ published = {}

exists(a) == assets[a].status \in Status

goes(w, t) == /\ task' = [task EXCEPT ![w] = t]
              /\ UNCHANGED edits

permitted == ChangesOverlap \/ \A w \in Worker :
               task[w].at \in {"idle", "recompute", "evidence", "trust", "promote"}

edited == /\ edits < MaxEdits
          /\ edits' = edits + 1
          /\ UNCHANGED task

begins(w, t) == task[w] = idle /\ goes(w, t)

ends(w) == goes(w, idle)

at(w, point) == task[w].at = point

\* The SELECT and the UPDATE of an update of the asset a request is about.
selects(w, row, point) == goes(w, [task[w] EXCEPT !.at = point, !.row = row])

updates(w) == assets' = [assets EXCEPT ![task[w].asset] = task[w].row]

-------------------------------------------------------------------------------
(* Who sees an asset.                                                       *)

retired(a) == assets[a].status \in {"merged", "deprecated"}

isVisibleForOrganization(a, o) ==
  /\ exists(a) /\ ~retired(a)
  /\ \/ assets[a].status = "active"
     \/ assets[a].org = o
     \/ assets[a].org = Global /\ assets[a].status = "org_verified"

isSuggestibleForOrganization(a, o) ==
  /\ exists(a) /\ ~retired(a)
  /\ assets[a].status \in {"active", "org_verified"} \/ assets[a].org = o

\* The duplicates of a name: the exact ones, by name or by alias, and those
\* that are only similar.
exactMatches(n, g, o) ==
  {a \in Asset : /\ isVisibleForOrganization(a, o)
                 /\ assets[a].game = g
                 /\ assets[a].name = n \/ n \in aliases[a]}

possibleMatches(n, g, o) ==
  {a \in Asset : /\ isSuggestibleForOrganization(a, o)
                 /\ assets[a].game = g
                 /\ \/ assets[a].name # n /\ <<n, assets[a].name>> \in Similar
                    \/ \E m \in aliases[a] : <<n, m>> \in Prefixed}

detect(n, g, o) == exactMatches(n, g, o) \cup possibleMatches(n, g, o)

-------------------------------------------------------------------------------
(* Creation.  Nothing takes a duplicate for granted, similar or equal.      *)

CreateAsset(w, o, n, g) ==
  /\ begins(w, [idle EXCEPT !.at = "insert", !.names = {n},
       !.row = [status |-> "candidate", canonical |-> NoAsset, name |-> n, game |-> g, org |-> o]])
  /\ permitted
  /\ detect(n, g, o) = {}
  /\ UNCHANGED <<assets, aliases, records, usedBy, published>>

\* The id is a new one; which one matters to nobody.
InsertAsset(w) ==
  /\ at(w, "insert")
  /\ \E a \in Asset :
       /\ ~exists(a)
       /\ assets' = [assets EXCEPT ![a] = task[w].row]
       /\ goes(w, [idle EXCEPT !.at = "alias", !.asset = a, !.names = task[w].names])
  /\ UNCHANGED <<aliases, records, usedBy, published>>

\* The aliases that a creation or a merge adds, one row at a time.
InsertAlias(w) ==
  LET a == task[w].asset
  IN  /\ at(w, "alias")
      /\ \E n \in task[w].names :
           /\ aliases' = [aliases EXCEPT ![a] = @ \cup {n}]
           /\ IF task[w].names = {n} THEN ends(w)
              ELSE goes(w, [task[w] EXCEPT !.names = @ \ {n}])
      /\ UNCHANGED <<assets, records, usedBy, published>>

-------------------------------------------------------------------------------
(* The merge of one record into another, by an official admin.              *)

\* Faulty variant: the target may itself be a merged record.
mergeableIntoAnything(a, b) ==
  /\ a # b /\ exists(a) /\ exists(b)
  /\ assets[a].game = assets[b].game
  /\ assets[a].status # "merged"

mergeable(a, b) ==
  /\ a # b /\ exists(a) /\ exists(b)
  /\ assets[a].game = assets[b].game
  /\ assets[a].status # "merged" /\ assets[b].status # "merged"

redirected(a) == assets[a].status = "merged" /\ assets[a].canonical # NoAsset

follow(a) == IF redirected(a) THEN assets[a].canonical ELSE a

\* What the walk from a record sees: whatever contains the record, and where each
\* of its own leads to, contains that.
seen(a) == {b \in Asset : \A S \in SUBSET Asset :
              a \in S /\ (\A c \in S : follow(c) \in S) => b \in S}

\* The record that stands for another: the end of the walk, unless it closes on
\* itself.
canonical(a) == {b \in seen(a) : ~redirected(b)}

MergeAsset(w, a, b) ==
  /\ begins(w, [idle EXCEPT !.at = "merge", !.asset = a, !.target = b])
  /\ permitted
  /\ mergeable(a, b)
  /\ UNCHANGED <<assets, aliases, records, usedBy, published>>

resolveCanonicalAsset(w) ==
  /\ at(w, "merge")
  /\ \/ canonical(task[w].target) = {} /\ ends(w)
     \/ \E b \in canonical(task[w].target) :
          goes(w, [task[w] EXCEPT !.at = "mark", !.target = b])
  /\ UNCHANGED <<assets, aliases, records, usedBy, published>>

SelectMerged(w) ==
  /\ at(w, "mark")
  /\ selects(w, [assets[task[w].asset] EXCEPT !.status = "merged",
                                             !.canonical = task[w].target], "redirect")
  /\ UNCHANGED <<assets, aliases, records, usedBy, published>>

MarkMerged(w) ==
  /\ at(w, "redirect")
  /\ updates(w)
  /\ goes(w, [task[w] EXCEPT !.at = "list"])
  /\ UNCHANGED <<aliases, records, usedBy, published>>

\* The aliases the target lacks.
ListAliases(w) ==
  LET c == task[w].target
      missing == aliases[task[w].asset] \ aliases[c]
  IN  /\ at(w, "list")
      /\ IF missing = {} THEN ends(w)
         ELSE goes(w, [idle EXCEPT !.at = "alias", !.asset = c, !.names = missing])
      /\ UNCHANGED <<assets, aliases, records, usedBy, published>>

-------------------------------------------------------------------------------
(* Use in the ledger, and the trust it earns.                               *)

\* An event or a settlement, of any asset there is.
CreateRecord(w, r, a) ==
  /\ records[r] = "unborn" /\ exists(a)
  /\ records' = [records EXCEPT ![r] = a]
  /\ usedBy' = [usedBy EXCEPT ![a] = @ \cup {AuthorOf[r]}]
  /\ begins(w, [idle EXCEPT !.at = "recompute", !.asset = a])
  /\ UNCHANGED <<assets, aliases, published>>

\* An edit lets a record name another asset of its own organization, or none.
\* Nothing is recomputed, for the old one or for the new.
RepointRecord(r, a) ==
  /\ edited
  /\ records[r] # "unborn"
  /\ a # NoAsset => exists(a) /\ assets[a].org \in {HomeOf[AuthorOf[r]], Global}
  /\ records' = [records EXCEPT ![r] = a]
  /\ usedBy' = [b \in Asset |-> IF b = a THEN usedBy[b] \cup {AuthorOf[r]} ELSE usedBy[b]]
  /\ UNCHANGED <<assets, aliases, published>>

users(a) == {AuthorOf[r] : r \in {q \in Record : records[q] = a}}

\* Faulty variant: a status that the table does not know.
statusVerified(a, owner) ==
  IF Cardinality({HomeOf[u] : u \in users(a)}) >= 2 THEN "verified" ELSE "candidate"

\* Faulty variant: two records promote, whoever wrote them.
statusFromRecords(a, owner) ==
  IF Cardinality({r \in Record : records[r] = a}) >= 2 THEN "active" ELSE "candidate"

resolveStatusFromEvidence(a, owner) ==
  IF Cardinality({HomeOf[u] : u \in users(a)}) >= 2 THEN "active"
  ELSE IF Cardinality({u \in users(a) : HomeOf[u] = owner}) >= 2 THEN "org_verified"
  ELSE "candidate"

\* recomputeStatus: the asset, the evidence, the status, in three calls.
ReadTrusted(w) ==
  LET a == task[w].asset
  IN  /\ at(w, "recompute")
      /\ IF retired(a) THEN ends(w)
         ELSE goes(w, [task[w] EXCEPT !.at = "evidence", !.status = assets[a].status])
      /\ UNCHANGED <<assets, aliases, records, usedBy, published>>

CollectEvidence(w) ==
  LET a == task[w].asset
      next == resolveStatusFromEvidence(a, assets[a].org)
  IN  /\ at(w, "evidence")
      /\ IF next = task[w].status THEN ends(w)
         ELSE goes(w, [task[w] EXCEPT !.at = "trust", !.status = next])
      /\ UNCHANGED <<assets, aliases, records, usedBy, published>>

SelectTrusted(w) ==
  /\ at(w, "trust")
  /\ selects(w, [assets[task[w].asset] EXCEPT !.status = task[w].status], "promote")
  /\ UNCHANGED <<assets, aliases, records, usedBy, published>>

WriteTrust(w) ==
  /\ at(w, "promote")
  /\ updates(w)
  /\ ends(w)
  /\ UNCHANGED <<aliases, records, usedBy, published>>

-------------------------------------------------------------------------------
(* The edits of a manager, on the assets of his organization; no alias      *)
(* follows a new name and no merged record a new game.                      *)

\* The row read with a new name and game, or the same; a status only if one is set.
patched(row, n, g, s) ==
  [row EXCEPT !.name = n, !.game = g, !.status = IF s = "absent" THEN row.status ELSE s]

\* The checks of the request, of an organization that never changes, and the SELECT.
UpdateAsset(w, a) ==
  /\ task[w] = idle /\ edits < MaxEdits /\ edits' = edits + 1
  /\ permitted
  /\ exists(a) /\ assets[a].org \in Organization
  /\ \E n \in Name, g \in Game, s \in ByHand \cup {"absent"} :
       task' = [task EXCEPT ![w] = [idle EXCEPT !.at = "edit", !.asset = a, !.status = s,
                                                !.row = patched(assets[a], n, g, s)]]
  /\ UNCHANGED <<assets, aliases, records, usedBy, published>>

WriteEdit(w) ==
  /\ at(w, "edit")
  /\ updates(w)
  /\ published' = published \cup {a \in {task[w].asset} : task[w].status \in Status}
  /\ ends(w)
  /\ UNCHANGED <<aliases, records, usedBy>>

-------------------------------------------------------------------------------
Step(w) ==
  \/ InsertAsset(w) \/ InsertAlias(w)
  \/ resolveCanonicalAsset(w) \/ SelectMerged(w) \/ MarkMerged(w) \/ ListAliases(w)
  \/ ReadTrusted(w) \/ CollectEvidence(w) \/ SelectTrusted(w) \/ WriteTrust(w)
  \/ WriteEdit(w)

Next ==
  \/ \E w \in Worker : Step(w)
  \/ \E w \in Worker, o \in Organization, n \in Name, g \in Game : CreateAsset(w, o, n, g)
  \/ \E w \in Worker, a, b \in Asset : MergeAsset(w, a, b)
  \/ \E w \in Worker, r \in Record, a \in Asset : CreateRecord(w, r, a)
  \/ \E r \in Record, a \in Asset \cup {NoAsset} : RepointRecord(r, a)
  \/ \E w \in Worker, a \in Asset : UpdateAsset(w, a)

Spec == Init /\ [][Next]_vars

-------------------------------------------------------------------------------
TypeOK ==
  /\ assets \in [Asset -> [status : Status \cup {"absent"},
       canonical : Asset \cup {NoAsset}, name : Name, game : Game,
       org : Organization \cup {Global}]]
  /\ aliases \in [Asset -> SUBSET Name]
  /\ records \in [Record -> Asset \cup {NoAsset, "unborn"}]
  /\ usedBy \in [Asset -> SUBSET User]
  /\ published \subseteq Asset

\* Controlled exposure: an organization sees the asset of another one only when
\* two organizations have used it, and is shown it as similar only when two
\* users of its own or two organizations have, unless a manager published it;
\* whatever overlaps, moves from one asset to another, or is merged.
ControlledExposure ==
  \A a \in Asset \ (published \cup {Unit}), o \in Organization :
    LET homes == {HomeOf[u] : u \in usedBy[a]}
        own   == {u \in usedBy[a] : HomeOf[u] = assets[a].org}
    IN  exists(a) /\ o # assets[a].org =>
          /\ isVisibleForOrganization(a, o) => Cardinality(homes) >= 2
          /\ isSuggestibleForOrganization(a, o) =>
               Cardinality(homes) >= 2 \/ Cardinality(own) >= 2

\* Old references resolve, where the creations, merges and edits of assets follow
\* one another: however many merges there were, and whatever recomputation wrote an
\* old row back between the SELECT and the UPDATE of any of them, a merged record
\* leads to one that is not merged: the walk never closes on itself.
OldReferencesResolve ==
  \A a \in Asset : exists(a) => \E b \in canonical(a) : assets[b].status # "merged"
===============================================================================
