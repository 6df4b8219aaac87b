------------------------- MODULE RelayExchangeProofs -------------------------
(***************************************************************************)
(* What the relay keeps for every set of accounts, devices, projects and   *)
(* packages, every ceiling, window, batch size and clock: its types, its   *)
(* storage ceilings, that no two live copies of an upload exist, that a    *)
(* package leaves early only when every device has it, and that a vector   *)
(* counts each fact once.                                                  *)
(*                                                                         *)
(* Then what the relay and its devices keep together, for any number of    *)
(* overlapping jobs: the composition takes only steps of the server's      *)
(* specification, a device acknowledges only what it merged or wrote, and, *)
(* where the jobs of a device do not overlap, what was queued stays in its *)
(* outbox.                                                                 *)
(***************************************************************************)
EXTENDS RelayExchange, FiniteSetTheorems, SumTheorems, TLAPS

-----------------------------------------------------------------------------
(* The server *)

\* Only finitely many packages were ever stored.
IssuedFinite == IsFiniteSet(DOMAIN issued)

\* A stored package belongs to the project it was issued for, and the devices
\* known to have acknowledged it are those that ever did.
StoredAsIssued ==
    \A p \in DOMAIN pkg : /\ issued[p].project = pkg[p].project
                          /\ issued[p].seen = acked[p]

\* The key of a package that is still offered remembers it for longer.
LiveRemembered ==
    \A p \in DOMAIN pkg :
        pkg[p].expires > now =>
            /\ UploadKeyOf(p) \in DOMAIN upload
            /\ upload[UploadKeyOf(p)].id = p
            /\ pkg[p].expires <= upload[UploadKeyOf(p)].expires

RelayInv ==
    /\ RelayTypeOK
    /\ IssuedFinite
    /\ StoredAsIssued
    /\ LiveRemembered
    /\ VectorCountsOnce

-----------------------------------------------------------------------------
\* Tables

LEMMA ExtendedTable ==
  ASSUME NEW f, NEW x, NEW value, NEW S, f \in [DOMAIN f -> S], value \in S
  PROVE  /\ DOMAIN Extended(f, x, value) = DOMAIN f \cup {x}
         /\ Extended(f, x, value) \in [DOMAIN f \cup {x} -> S]
         /\ Extended(f, x, value)[x] = value
         /\ \A y \in DOMAIN f \ {x} : Extended(f, x, value)[y] = f[y]
  BY DEF Extended

LEMMA Earliest ==
  ASSUME NEW a \in Int, NEW b \in Int
  PROVE  /\ Earlier(a, b) \in {a, b}
         /\ Earlier(a, b) <= a /\ Earlier(a, b) <= b
  BY DEF Earlier

\* The types of the policy tables, apart from the packages.
PolicyTypes ==
    /\ orgDays \in 1..HardMax
    /\ DOMAIN project \subseteq Project
    /\ project \in [DOMAIN project -> ProjectRow]
    /\ member \subseteq (DOMAIN project) \X User
    /\ edit \in [Call -> Edit]

DeviceTypes == enrolled \subseteq Device /\ revoked \subseteq enrolled

PackageTypes ==
    /\ DOMAIN pkg \subseteq DOMAIN issued /\ DOMAIN issued \subseteq Package
    /\ issued \in [DOMAIN issued -> Issue]
    /\ pkg \in [DOMAIN pkg -> RelayPackage]
    /\ acked \in [DOMAIN pkg -> SUBSET enrolled]
    /\ vector \in [Project \X Device -> Nat]
    /\ DOMAIN upload \subseteq UploadKey
    /\ upload \in [DOMAIN upload -> UploadResult]

LEMMA TypesByTable ==
  RelayTypeOK <=> /\ now \in 0..LastDay /\ purge \in -1..now
                  /\ PolicyTypes /\ DeviceTypes /\ PackageTypes
  BY DEF RelayTypeOK, PolicyTypes, DeviceTypes, PackageTypes

-----------------------------------------------------------------------------
\* Policy

LEMMA EditKinds ==
  ASSUME RelayTypeOK, NEW c \in Call
  PROVE  /\ edit[c].op = "create" =>
              /\ edit[c].project \in Project /\ edit[c].user \in User
              /\ edit[c].next \in ProjectRow
         /\ edit[c].op = "patch" => edit[c].next \in ProjectRow
         /\ NoEdit \in Edit
  BY DEF RelayTypeOK, Edit, NoEdit

LEMMA CreateBeginTypes ==
  ASSUME RelayTypeOK, NEW c \in Call, NEW u \in User, NEW j \in Project,
         CreateBegin(c, u, j)
  PROVE  PolicyTypes'
<1> DEFINE next == [NewProject EXCEPT !.days = orgDays]
           row == [op |-> "create", project |-> j, user |-> u, next |-> next]
<1>1. next \in ProjectRow
  BY DEF NewProject, ProjectRow, RelayTypeOK
<1>2. row \in Edit
  BY <1>1 DEF Edit
<1> QED
  BY <1>2 DEF CreateBegin, RelayTypeOK, PolicyTypes

LEMMA PatchBeginTypes ==
  ASSUME RelayTypeOK, NEW c \in Call, NEW u \in User, NEW j \in Project,
         NEW patch \in Patch, PatchBegin(c, u, j, patch)
  PROVE  PolicyTypes'
<1> DEFINE row == [op |-> "patch", project |-> j,
                   next |-> Patched(project[j], patch)]
<1>1. project[j] \in ProjectRow
  BY DEF PatchBegin, Sees, RelayTypeOK
<1>2. Patched(project[j], patch) \in ProjectRow
  BY <1>1, RelayConstants DEF Patched, ProjectRow, Patch
<1>3. row \in Edit
  BY <1>2 DEF Edit
<1> QED
  BY <1>3 DEF PatchBegin, RelayTypeOK, PolicyTypes

LEMMA CommitTypes ==
  ASSUME RelayTypeOK, NEW c \in Call, CreateCommit(c) \/ PatchCommit(c)
  PROVE  PolicyTypes'
<1>1. CASE CreateCommit(c) /\ edit[c].project \in DOMAIN project
  BY <1>1, EditKinds DEF CreateCommit, RelayTypeOK, PolicyTypes
<1>2. CASE CreateCommit(c) /\ edit[c].project \notin DOMAIN project
  <2> DEFINE j == edit[c].project
             u == edit[c].user
             next == edit[c].next
  <2>1. /\ project' = Extended(project, j, next)
        /\ member' = member \cup {<<j, u>>}
        /\ edit[c].op = "create"
    BY <1>2 DEF CreateCommit
  <2>2. j \in Project /\ u \in User /\ next \in ProjectRow
    BY <2>1, EditKinds
  <2>3. /\ DOMAIN project \subseteq Project
        /\ project \in [DOMAIN project -> ProjectRow]
        /\ member \subseteq (DOMAIN project) \X User
    BY DEF RelayTypeOK
  <2>4. edit' \in [Call -> Edit]
    BY <1>2, EditKinds DEF CreateCommit, RelayTypeOK
  <2> HIDE DEF j, u, next
  <2>5. /\ DOMAIN Extended(project, j, next) = DOMAIN project \cup {j}
        /\ Extended(project, j, next)
              \in [DOMAIN project \cup {j} -> ProjectRow]
    BY <2>2, <2>3, ExtendedTable
  <2>6. /\ DOMAIN project' \subseteq Project
        /\ project' \in [DOMAIN project' -> ProjectRow]
        /\ member' \subseteq (DOMAIN project') \X User
    BY <2>1, <2>2, <2>3, <2>5
  <2> QED
    BY <1>2, <2>4, <2>6 DEF CreateCommit, RelayTypeOK, PolicyTypes
<1>3. CASE PatchCommit(c)
  BY <1>3, EditKinds DEF PatchCommit, RelayTypeOK, PolicyTypes
<1> QED
  BY <1>1, <1>2, <1>3

LEMMA ConfigureTypes ==
  ASSUME RelayTypeOK, NEW days \in Windows, Configure(days)
  PROVE  /\ PolicyTypes'
         /\ DOMAIN pkg' = DOMAIN pkg
         /\ pkg' \in [DOMAIN pkg -> RelayPackage]
         /\ \A p \in DOMAIN pkg : /\ pkg'[p].project = pkg[p].project
                                  /\ pkg'[p].author = pkg[p].author
                                  /\ pkg'[p].key = pkg[p].key
                                  /\ pkg'[p].expires <= pkg[p].expires
<1>1. days \in 1..HardMax /\ LastDay \in Nat /\ HardMax \in Nat
  BY RelayConstants
<1>2. ASSUME NEW j \in DOMAIN project
      PROVE  project'[j] \in ProjectRow
  <2>1. project[j] \in ProjectRow /\ project[j].days \in Int
    BY DEF RelayTypeOK, ProjectRow
  <2>2. Earlier(project[j].days, days) \in 1..HardMax
    BY <1>1, <2>1, Earliest DEF ProjectRow
  <2> QED
    BY <2>1, <2>2 DEF Configure, ProjectRow
<1>3. ASSUME NEW p \in DOMAIN pkg
      PROVE  /\ pkg'[p] \in RelayPackage
             /\ pkg'[p].project = pkg[p].project
             /\ pkg'[p].author = pkg[p].author
             /\ pkg'[p].key = pkg[p].key
             /\ pkg'[p].expires <= pkg[p].expires
  <2>1. pkg[p] \in RelayPackage
    BY DEF RelayTypeOK
  <2>2. /\ pkg[p].expires \in Int /\ pkg[p].created + days \in Int
        /\ pkg[p].created + days \in 0..(LastDay + HardMax)
    BY <1>1, <2>1 DEF RelayPackage
  <2>3. /\ Earlier(pkg[p].expires, pkg[p].created + days)
              \in 0..(LastDay + HardMax)
        /\ Earlier(pkg[p].expires, pkg[p].created + days) <= pkg[p].expires
    BY <2>1, <2>2, Earliest DEF RelayPackage
  <2>4. pkg'[p] = [pkg[p] EXCEPT !.expires =
                     Earlier(pkg[p].expires, pkg[p].created + days)]
    BY DEF Configure
  <2> QED
    BY <2>1, <2>3, <2>4 DEF RelayPackage
<1>4. DOMAIN project' = DOMAIN project /\ DOMAIN pkg' = DOMAIN pkg
  BY DEF Configure
<1>5. project' \in [DOMAIN project -> ProjectRow]
  BY <1>2 DEF Configure
<1>6. pkg' \in [DOMAIN pkg -> RelayPackage]
  BY <1>3 DEF Configure
<1> QED
  BY <1>1, <1>3, <1>4, <1>5, <1>6 DEF Configure, RelayTypeOK, PolicyTypes

-----------------------------------------------------------------------------
\* Uploads

\* What a device wrote and what it has seen, as the vector counts them.
WrittenBy(j, d) == {p \in DOMAIN issued : issued[p].project = j
                                          /\ issued[p].author = d}

SeenBy(j, d) == {p \in DOMAIN issued : issued[p].project = j
                                       /\ d \in issued[p].seen}

LEMMA CountsAreFinite ==
  ASSUME IssuedFinite, NEW j, NEW d
  PROVE  /\ IsFiniteSet(WrittenBy(j, d)) /\ IsFiniteSet(SeenBy(j, d))
         /\ Cardinality(WrittenBy(j, d)) \in Nat
         /\ Cardinality(SeenBy(j, d)) \in Nat
<1>1. WrittenBy(j, d) \in SUBSET DOMAIN issued
      /\ SeenBy(j, d) \in SUBSET DOMAIN issued
  BY DEF WrittenBy, SeenBy
<1> QED
  BY <1>1, FS_Subset, FS_CardinalityType DEF IssuedFinite

\* What an upload leaves in the tables.
UploadEffect(d, j, key, p) ==
    /\ DOMAIN pkg' = DOMAIN pkg \cup {p}
    /\ DOMAIN issued' = DOMAIN issued \cup {p}
    /\ DOMAIN upload' = DOMAIN upload \cup {<<j, d, key>>}
    /\ p \notin DOMAIN issued /\ p \notin DOMAIN pkg
    /\ pkg'[p].project = j /\ pkg'[p].author = d /\ pkg'[p].key = key
    /\ pkg'[p].expires = now + project[j].days
    /\ issued'[p] = [project |-> j, author |-> d, seen |-> {}]
    /\ acked'[p] = {}
    /\ upload'[<<j, d, key>>] = [id |-> p, expires |-> now + HardMax]
    /\ \A q \in DOMAIN pkg : pkg'[q] = pkg[q] /\ acked'[q] = acked[q]
    /\ \A q \in DOMAIN issued : issued'[q] = issued[q]
    /\ \A k \in DOMAIN upload \ {<<j, d, key>>} : upload'[k] = upload[k]
    /\ project[j].days \in 1..HardMax

LEMMA UploadTables ==
  ASSUME RelayTypeOK, NEW d \in Device, NEW j \in Project, NEW key \in Key,
         NEW p \in Package, NEW size \in Sizes, Upload(d, j, key, p, size)
  PROVE  UploadEffect(d, j, key, p) /\ PackageTypes'
<1> DEFINE row == [project |-> j, author |-> d, key |-> key, size |-> size,
                   created |-> now, expires |-> now + project[j].days]
           issue == [project |-> j, author |-> d, seen |-> {}]
           result == [id |-> p, expires |-> now + HardMax]
           k == <<j, d, key>>
<1>1. /\ DOMAIN pkg \subseteq DOMAIN issued
      /\ issued \in [DOMAIN issued -> Issue]
      /\ pkg \in [DOMAIN pkg -> RelayPackage]
      /\ acked \in [DOMAIN acked -> SUBSET enrolled]
      /\ DOMAIN acked = DOMAIN pkg
      /\ upload \in [DOMAIN upload -> UploadResult]
      /\ DOMAIN upload \subseteq UploadKey /\ DOMAIN issued \subseteq Package
      /\ vector \in [Project \X Device -> Nat]
      /\ now \in 0..LastDay /\ LastDay \in Nat /\ HardMax \in Nat
  BY RelayConstants DEF RelayTypeOK
<1>2. project[j].days \in 1..HardMax
  BY DEF Upload, Relays, Sees, RelayTypeOK, ProjectRow
<1>3. /\ p \notin DOMAIN issued /\ p \notin DOMAIN pkg
      /\ pkg' = Extended(pkg, p, row)
      /\ acked' = Extended(acked, p, {})
      /\ issued' = Extended(issued, p, issue)
      /\ upload' = Extended(upload, k, result)
      /\ vector' = [vector EXCEPT ![<<j, d>>] = @ + 1]
      /\ UNCHANGED <<enrolled, revoked>>
  BY <1>1 DEF Upload, KeyLife, Bumped, deviceVars
<1>4. row \in RelayPackage
  BY <1>1, <1>2 DEF RelayPackage
<1>5. issue \in Issue /\ result \in UploadResult /\ k \in UploadKey
  BY <1>1 DEF Issue, UploadResult, UploadKey
<1> HIDE DEF row, issue, result, k
<1>6. /\ DOMAIN Extended(pkg, p, row) = DOMAIN pkg \cup {p}
      /\ Extended(pkg, p, row) \in [DOMAIN pkg \cup {p} -> RelayPackage]
      /\ Extended(pkg, p, row)[p] = row
      /\ \A q \in DOMAIN pkg \ {p} : Extended(pkg, p, row)[q] = pkg[q]
  <2>1. pkg \in [DOMAIN pkg -> RelayPackage] /\ row \in RelayPackage
    BY <1>1, <1>4
  <2> QED
    BY <2>1 DEF Extended
<1>7. /\ DOMAIN Extended(acked, p, {}) = DOMAIN acked \cup {p}
      /\ Extended(acked, p, {}) \in [DOMAIN acked \cup {p} -> SUBSET enrolled]
      /\ Extended(acked, p, {})[p] = {}
      /\ \A q \in DOMAIN acked \ {p} : Extended(acked, p, {})[q] = acked[q]
  <2>1. acked \in [DOMAIN acked -> SUBSET enrolled] /\ {} \in SUBSET enrolled
    BY <1>1
  <2> QED
    BY <2>1 DEF Extended
<1>8. /\ DOMAIN Extended(issued, p, issue) = DOMAIN issued \cup {p}
      /\ Extended(issued, p, issue) \in [DOMAIN issued \cup {p} -> Issue]
      /\ Extended(issued, p, issue)[p] = issue
      /\ \A q \in DOMAIN issued \ {p} :
           Extended(issued, p, issue)[q] = issued[q]
  <2>1. issued \in [DOMAIN issued -> Issue] /\ issue \in Issue
    BY <1>1, <1>5
  <2> QED
    BY <2>1 DEF Extended
<1>9. /\ DOMAIN Extended(upload, k, result) = DOMAIN upload \cup {k}
      /\ Extended(upload, k, result)
            \in [DOMAIN upload \cup {k} -> UploadResult]
      /\ Extended(upload, k, result)[k] = result
      /\ \A x \in DOMAIN upload \ {k} :
           Extended(upload, k, result)[x] = upload[x]
  <2>1. upload \in [DOMAIN upload -> UploadResult] /\ result \in UploadResult
    BY <1>1, <1>5
  <2> QED
    BY <2>1 DEF Extended
<1>10. vector' \in [Project \X Device -> Nat]
  BY <1>1, <1>3
<1>11. PackageTypes'
  BY <1>1, <1>3, <1>5, <1>6, <1>7, <1>8, <1>9, <1>10 DEF PackageTypes
<1>12. /\ row.project = j /\ row.author = d /\ row.key = key
       /\ row.expires = now + project[j].days
  BY DEF row
<1>13. issue = [project |-> j, author |-> d, seen |-> {}]
  BY DEF issue
<1>14. result = [id |-> p, expires |-> now + HardMax] /\ k = <<j, d, key>>
  BY DEF result, k
<1> QED
  BY <1>1, <1>2, <1>3, <1>6, <1>7, <1>8, <1>9, <1>11, <1>12, <1>13, <1>14
  DEF UploadEffect

LEMMA UploadKeepsInv ==
  ASSUME RelayInv, NEW d \in Device, NEW j \in Project, NEW key \in Key,
         NEW p \in Package, NEW size \in Sizes, Upload(d, j, key, p, size)
  PROVE  RelayInv'
<1> DEFINE k == <<j, d, key>>
<1>1. RelayTypeOK /\ IssuedFinite /\ StoredAsIssued /\ LiveRemembered
      /\ VectorCountsOnce
  BY DEF RelayInv
<1>0. UploadEffect(d, j, key, p) /\ PackageTypes'
  BY <1>1, UploadTables
<1>2. RelayTypeOK'
  <2>1. /\ now' = now /\ purge' = purge
        /\ PolicyTypes' /\ DeviceTypes'
    BY <1>1, TypesByTable
    DEF Upload, policyVars, deviceVars, PolicyTypes, DeviceTypes
  <2>2. now' \in 0..LastDay /\ purge' \in -1..now'
    BY <1>1, <2>1 DEF RelayTypeOK
  <2> QED
    BY <1>0, <2>1, <2>2
    DEF RelayTypeOK, PackageTypes, PolicyTypes, DeviceTypes
<1>3. IssuedFinite'
  BY <1>1, <1>0, FS_AddElement DEF IssuedFinite, UploadEffect
<1>4. StoredAsIssued'
  <2>1. DOMAIN pkg \subseteq DOMAIN issued
    BY <1>1 DEF RelayTypeOK
  <2>2. issued'[p].project = pkg'[p].project /\ issued'[p].seen = acked'[p]
    BY <1>0 DEF UploadEffect
  <2>3. ASSUME NEW q \in DOMAIN pkg
        PROVE  /\ issued'[q].project = pkg'[q].project
               /\ issued'[q].seen = acked'[q]
    BY <1>0, <1>1, <2>1 DEF StoredAsIssued, UploadEffect
  <2> QED
    BY <1>0, <2>2, <2>3 DEF StoredAsIssued, UploadEffect
<1>5. LiveRemembered'
  <2>1. now' = now /\ now \in Nat /\ HardMax \in Nat /\ ~Remembered(k)
    BY <1>1, RelayConstants DEF Upload, RelayTypeOK
  <2>2. UploadKeyOf(p)' = k
    BY <1>1, <1>0 DEF UploadKeyOf, UploadEffect
  <2>3. ASSUME NEW q \in DOMAIN pkg, pkg[q].expires > now
        PROVE  /\ UploadKeyOf(q)' = UploadKeyOf(q)
               /\ UploadKeyOf(q) \in DOMAIN upload \ {k}
    <3>1. UploadKeyOf(q)' = UploadKeyOf(q)
      BY <1>1, <1>0 DEF UploadKeyOf, UploadEffect
    <3>2. /\ UploadKeyOf(q) \in DOMAIN upload
          /\ pkg[q].expires <= upload[UploadKeyOf(q)].expires
      BY <1>1, <2>3 DEF LiveRemembered
    <3>3. pkg[q].expires \in Int /\ upload[UploadKeyOf(q)].expires \in Int
      BY <1>1, <3>2 DEF RelayTypeOK, RelayPackage, UploadResult
    <3>4. UploadKeyOf(q) # k
      BY <2>1, <2>3, <3>2, <3>3 DEF Remembered
    <3> QED
      BY <3>1, <3>2, <3>4
  <2>4. ASSUME NEW q \in DOMAIN pkg', pkg'[q].expires > now'
        PROVE  /\ UploadKeyOf(q)' \in DOMAIN upload'
               /\ upload'[UploadKeyOf(q)'].id = q
               /\ pkg'[q].expires <= upload'[UploadKeyOf(q)'].expires
    <3>1. CASE q = p
      <4>1. /\ k \in DOMAIN upload' /\ upload'[k].id = p
            /\ upload'[k].expires = now + HardMax
            /\ pkg'[p].expires = now + project[j].days
            /\ project[j].days \in 1..HardMax
        BY <1>1, <1>0 DEF UploadEffect
      <4> QED
        BY <2>1, <2>2, <3>1, <4>1
    <3>2. CASE q \in DOMAIN pkg
      <4>1. pkg'[q] = pkg[q]
        BY <1>1, <3>2, <1>0 DEF UploadEffect
      <4>2. /\ UploadKeyOf(q) \in DOMAIN upload'
            /\ upload'[UploadKeyOf(q)] = upload[UploadKeyOf(q)]
        BY <1>1, <2>1, <2>3, <2>4, <3>2, <4>1, <1>0 DEF UploadEffect
      <4> QED
        BY <1>1, <2>1, <2>3, <2>4, <3>2, <4>1, <4>2 DEF LiveRemembered
    <3> QED
      BY <1>1, <2>4, <3>1, <3>2, <1>0 DEF UploadEffect
  <2> QED
    BY <2>4 DEF LiveRemembered
<1>6. VectorCountsOnce'
  <2>1. ASSUME NEW jj \in Project, NEW dd \in Device
        PROVE  vector'[<<jj, dd>>] = Cardinality(WrittenBy(jj, dd)')
                                     + Cardinality(SeenBy(jj, dd)')
    <3>1. vector[<<jj, dd>>] = Cardinality(WrittenBy(jj, dd))
                               + Cardinality(SeenBy(jj, dd))
      BY <1>1 DEF VectorCountsOnce, WrittenBy, SeenBy
    <3>2. SeenBy(jj, dd)' = SeenBy(jj, dd)
      BY <1>1, <1>0 DEF SeenBy, UploadEffect
    <3>3. WrittenBy(jj, dd)' = IF jj = j /\ dd = d
                               THEN WrittenBy(jj, dd) \cup {p}
                               ELSE WrittenBy(jj, dd)
      BY <1>1, <1>0 DEF WrittenBy, UploadEffect
    <3>4. p \notin WrittenBy(jj, dd)
      BY <1>1, <1>0 DEF WrittenBy, UploadEffect
    <3>5. vector'[<<jj, dd>>] = IF jj = j /\ dd = d
                                THEN vector[<<jj, dd>>] + 1
                                ELSE vector[<<jj, dd>>]
      BY <1>1 DEF Upload, Bumped, RelayTypeOK
    <3> DEFINE W == WrittenBy(jj, dd)
               V == SeenBy(jj, dd)
    <3>6. IsFiniteSet(W) /\ Cardinality(W) \in Nat /\ Cardinality(V) \in Nat
      BY <1>1, CountsAreFinite
    <3>7. Cardinality(W \cup {p}) = Cardinality(W) + 1
      BY <3>4, <3>6, FS_AddElement
    <3> QED
      BY <3>1, <3>2, <3>3, <3>5, <3>6, <3>7
  <2> QED
    BY <2>1 DEF VectorCountsOnce, WrittenBy, SeenBy
<1> QED
  BY <1>2, <1>3, <1>4, <1>5, <1>6 DEF RelayInv

-----------------------------------------------------------------------------
\* Acknowledgements

\* What an acknowledgement by d that is new for the set new leaves.
AckEffect(d, new) ==
    /\ d \in enrolled /\ new \subseteq DOMAIN pkg
    /\ \A p \in new : d \notin acked[p]
    /\ DOMAIN pkg' \subseteq DOMAIN pkg
    /\ \A p \in DOMAIN pkg \ DOMAIN pkg' :
          p \in new /\ Audience(pkg[p].project) \subseteq acked[p] \cup {d}
    /\ \A p \in DOMAIN pkg' :
          /\ pkg'[p] = pkg[p]
          /\ acked'[p] = IF p \in new THEN acked[p] \cup {d} ELSE acked[p]
    /\ DOMAIN issued' = DOMAIN issued
    /\ \A p \in DOMAIN issued :
          /\ issued'[p].project = issued[p].project
          /\ issued'[p].author = issued[p].author
          /\ issued'[p].seen = IF p \in new THEN issued[p].seen \cup {d}
                                            ELSE issued[p].seen
    /\ \A x \in Project \X Device :
          vector'[x] = vector[x] +
              Cardinality({p \in new : x = <<pkg[p].project, d>>})

LEMMA AcknowledgeTables ==
  ASSUME RelayTypeOK, IssuedFinite, NEW d \in Device,
         NEW ids \in SUBSET Package, Acknowledge(d, ids)
  PROVE  AckEffect(d, New(d, ids)) /\ PackageTypes'
<1> DEFINE new == New(d, ids)
           acks == [p \in DOMAIN pkg |-> IF p \in new THEN acked[p] \cup {d}
                                                      ELSE acked[p]]
           gone == {p \in new : Done(p, acks[p])}
<1>1. /\ DOMAIN pkg \subseteq DOMAIN issued
      /\ issued \in [DOMAIN issued -> Issue]
      /\ pkg \in [DOMAIN pkg -> RelayPackage]
      /\ acked \in [DOMAIN pkg -> SUBSET enrolled]
      /\ upload \in [DOMAIN upload -> UploadResult]
      /\ DOMAIN upload \subseteq UploadKey /\ DOMAIN issued \subseteq Package
      /\ vector \in [Project \X Device -> Nat]
      /\ enrolled \subseteq Device
  BY DEF RelayTypeOK
<1>2. new \subseteq DOMAIN pkg /\ \A p \in new : d \notin acked[p]
  BY DEF New
<1>3. /\ d \in enrolled
      /\ pkg' = Kept(pkg, gone) /\ acked' = Kept(acks, gone)
      /\ vector' = [x \in DOMAIN vector |-> vector[x] +
                      Cardinality({p \in new : x = <<pkg[p].project, d>>})]
      /\ issued' = [p \in DOMAIN issued |->
                      IF p \in new
                      THEN [issued[p] EXCEPT !.seen = issued[p].seen \cup {d}]
                      ELSE issued[p]]
      /\ UNCHANGED <<upload, enrolled>>
  BY DEF Acknowledge, deviceVars
<1> HIDE DEF new
<1>4. /\ DOMAIN pkg' = DOMAIN pkg \ gone
      /\ pkg' \in [DOMAIN pkg' -> RelayPackage]
      /\ \A p \in DOMAIN pkg' : pkg'[p] = pkg[p]
  BY <1>1, <1>3 DEF Kept
<1>5. /\ DOMAIN acked' = DOMAIN pkg \ gone
      /\ \A p \in DOMAIN pkg' :
           acked'[p] = IF p \in new THEN acked[p] \cup {d} ELSE acked[p]
  BY <1>1, <1>3, <1>4 DEF Kept
<1>6. acked' \in [DOMAIN pkg' -> SUBSET enrolled']
  BY <1>1, <1>3, <1>4, <1>5 DEF Kept
<1>7. ASSUME NEW p \in DOMAIN issued
      PROVE  /\ issued'[p] \in Issue
             /\ issued'[p].project = issued[p].project
             /\ issued'[p].author = issued[p].author
             /\ issued'[p].seen = IF p \in new THEN issued[p].seen \cup {d}
                                               ELSE issued[p].seen
  <2>1. issued[p] \in Issue
    BY <1>1
  <2>2. issued'[p] = IF p \in new
                     THEN [issued[p] EXCEPT !.seen = issued[p].seen \cup {d}]
                     ELSE issued[p]
    BY <1>3
  <2> QED
    BY <2>1, <2>2 DEF Issue
<1>8. DOMAIN issued' = DOMAIN issued /\ issued' \in [DOMAIN issued -> Issue]
  BY <1>3, <1>7
<1>9. ASSUME NEW x \in Project \X Device
      PROVE  /\ vector'[x] = vector[x] +
                  Cardinality({p \in new : x = <<pkg[p].project, d>>})
             /\ vector'[x] \in Nat
  <2>1. {p \in new : x = <<pkg[p].project, d>>} \in SUBSET DOMAIN issued
    BY <1>1, <1>2
  <2>2. Cardinality({p \in new : x = <<pkg[p].project, d>>}) \in Nat
    BY <2>1, FS_Subset, FS_CardinalityType DEF IssuedFinite
  <2> QED
    BY <1>1, <1>3, <2>2
<1>10. vector' \in [Project \X Device -> Nat]
  BY <1>1, <1>3, <1>9
<1>11. \A p \in DOMAIN pkg \ DOMAIN pkg' :
          p \in new /\ Audience(pkg[p].project) \subseteq acked[p] \cup {d}
  BY <1>2, <1>4 DEF Done
<1>12. PackageTypes'
  BY <1>1, <1>3, <1>4, <1>6, <1>8, <1>10 DEF PackageTypes
<1>13. AckEffect(d, new)
  BY <1>2, <1>3, <1>4, <1>5, <1>7, <1>8, <1>9, <1>11 DEF AckEffect
<1> QED
  BY <1>12, <1>13 DEF new

LEMMA AcknowledgeKeepsInv ==
  ASSUME RelayInv, NEW d \in Device, NEW ids \in SUBSET Package,
         Acknowledge(d, ids)
  PROVE  RelayInv'
<1> DEFINE new == New(d, ids)
<1>1. RelayTypeOK /\ IssuedFinite /\ StoredAsIssued /\ LiveRemembered
      /\ VectorCountsOnce
  BY DEF RelayInv
<1>2. AckEffect(d, new) /\ PackageTypes'
  BY <1>1, AcknowledgeTables
<1>3. UNCHANGED <<now, purge, upload>>
  BY DEF Acknowledge
<1>4. RelayTypeOK'
  <2>1. PolicyTypes' /\ DeviceTypes'
    BY <1>1, TypesByTable
    DEF Acknowledge, policyVars, deviceVars, PolicyTypes, DeviceTypes
  <2>2. now' \in 0..LastDay /\ purge' \in -1..now'
    BY <1>1, <1>3 DEF RelayTypeOK
  <2> QED
    BY <1>2, <2>1, <2>2
    DEF RelayTypeOK, PackageTypes, PolicyTypes, DeviceTypes
<1>5. DOMAIN pkg \subseteq DOMAIN issued
  BY <1>1 DEF RelayTypeOK
<1> HIDE DEF new
<1>6. IssuedFinite'
  BY <1>1, <1>2 DEF IssuedFinite, AckEffect
<1>7. StoredAsIssued'
  BY <1>1, <1>2, <1>5 DEF StoredAsIssued, AckEffect
<1>8. LiveRemembered'
  BY <1>1, <1>2, <1>3 DEF LiveRemembered, UploadKeyOf, AckEffect
<1>9. VectorCountsOnce'
  <2>1. ASSUME NEW j \in Project, NEW dd \in Device
        PROVE  vector'[<<j, dd>>] = Cardinality(WrittenBy(j, dd)')
                                    + Cardinality(SeenBy(j, dd)')
    <3> DEFINE W == WrittenBy(j, dd)
               V == SeenBy(j, dd)
               N == {p \in new : <<j, dd>> = <<pkg[p].project, d>>}
    <3>1. vector[<<j, dd>>] = Cardinality(W) + Cardinality(V)
      BY <1>1 DEF VectorCountsOnce, WrittenBy, SeenBy
    <3>2. WrittenBy(j, dd)' = W
      BY <1>2 DEF WrittenBy, AckEffect
    <3>3. SeenBy(j, dd)' = V \cup N
      <4>1. /\ DOMAIN issued' = DOMAIN issued
            /\ \A p \in DOMAIN issued :
                  /\ issued'[p].project = issued[p].project
                  /\ issued'[p].seen = IF p \in new
                                       THEN issued[p].seen \cup {d}
                                       ELSE issued[p].seen
        BY <1>2 DEF AckEffect
      <4>2. \A p \in new : /\ p \in DOMAIN issued
                            /\ issued[p].project = pkg[p].project
        BY <1>1, <1>2, <1>5 DEF AckEffect, StoredAsIssued
      <4>3. \A p \in SeenBy(j, dd)' : p \in V \cup N
        BY <4>1, <4>2 DEF SeenBy
      <4>4. \A p \in V \cup N : p \in SeenBy(j, dd)'
        BY <4>1, <4>2 DEF SeenBy
      <4> HIDE DEF V, N
      <4> QED
        BY <4>3, <4>4
    <3>4. V \cap N = {}
      BY <1>1, <1>2 DEF SeenBy, AckEffect, StoredAsIssued
    <3>5. vector'[<<j, dd>>] = vector[<<j, dd>>] + Cardinality(N)
      BY <1>2 DEF AckEffect
    <3>6. N \in SUBSET DOMAIN issued
      BY <1>2, <1>5 DEF AckEffect
    <3>7. IsFiniteSet(N) /\ Cardinality(N) \in Nat
      BY <1>1, <3>6, FS_Subset, FS_CardinalityType DEF IssuedFinite
    <3>8. /\ IsFiniteSet(V) /\ Cardinality(V) \in Nat
          /\ Cardinality(W) \in Nat
      BY <1>1, CountsAreFinite
    <3> HIDE DEF V, N, W
    <3>9. Cardinality(V \cup N) = Cardinality(V) + Cardinality(N)
      <4>1. Cardinality(V \cup N) = Cardinality(V) + Cardinality(N)
                                      - Cardinality(V \cap N)
        BY <3>7, <3>8, FS_Union
      <4>2. Cardinality(V \cap N) = 0
        BY <3>4, FS_EmptySet
      <4> QED
        BY <3>7, <3>8, <4>1, <4>2
    <3> QED
      BY <3>1, <3>2, <3>3, <3>5, <3>7, <3>8, <3>9
  <2> QED
    BY <2>1 DEF VectorCountsOnce, WrittenBy, SeenBy
<1> QED
  BY <1>4, <1>6, <1>7, <1>8, <1>9 DEF RelayInv

-----------------------------------------------------------------------------
\* The purge, the clock and the policy

LEMMA PurgeBatchTables ==
  ASSUME RelayTypeOK, PurgeBatch
  PROVE  /\ PackageTypes'
         /\ DOMAIN pkg' \subseteq DOMAIN pkg
         /\ \A p \in DOMAIN pkg \ DOMAIN pkg' : pkg[p].expires <= now
         /\ \A p \in DOMAIN pkg' : pkg'[p] = pkg[p] /\ acked'[p] = acked[p]
         /\ DOMAIN upload' \subseteq DOMAIN upload
         /\ \A k \in DOMAIN upload \ DOMAIN upload' : upload[k].expires <= now
         /\ \A k \in DOMAIN upload' : upload'[k] = upload[k]
         /\ purge' \in {purge, -1}
         /\ UNCHANGED <<now, policyVars, deviceVars, vector, issued>>
<1>1. PICK gone \in SUBSET Due,
           keys \in SUBSET {k \in DOMAIN upload : upload[k].expires <= purge} :
        /\ pkg' = Kept(pkg, gone)
        /\ acked' = Kept(acked, gone)
        /\ upload' = Kept(upload, keys)
        /\ purge' \in {purge, -1}
        /\ UNCHANGED <<now, policyVars, deviceVars, vector, issued>>
  BY DEF PurgeBatch
<1>2. /\ purge <= now /\ purge \in Int /\ now \in Int
      /\ pkg \in [DOMAIN pkg -> RelayPackage]
      /\ acked \in [DOMAIN pkg -> SUBSET enrolled]
      /\ upload \in [DOMAIN upload -> UploadResult]
  BY RelayConstants DEF RelayTypeOK
<1>3. /\ \A p \in DOMAIN pkg : pkg[p].expires \in Int
      /\ \A k \in DOMAIN upload : upload[k].expires \in Int
  BY <1>2 DEF RelayPackage, UploadResult
<1>4. /\ DOMAIN pkg' = DOMAIN pkg \ gone
      /\ pkg' \in [DOMAIN pkg' -> RelayPackage]
      /\ \A p \in DOMAIN pkg' : pkg'[p] = pkg[p]
  BY <1>1, <1>2 DEF Kept
<1>5. /\ acked' \in [DOMAIN pkg' -> SUBSET enrolled]
      /\ \A p \in DOMAIN pkg' : acked'[p] = acked[p]
  BY <1>1, <1>2 DEF Kept
<1>6. /\ DOMAIN upload' = DOMAIN upload \ keys
      /\ upload' \in [DOMAIN upload' -> UploadResult]
      /\ \A k \in DOMAIN upload' : upload'[k] = upload[k]
  BY <1>1, <1>2 DEF Kept
<1>7. PackageTypes'
  BY <1>1, <1>4, <1>5, <1>6 DEF PackageTypes, RelayTypeOK, deviceVars
<1> QED
  BY <1>1, <1>2, <1>3, <1>4, <1>5, <1>6, <1>7 DEF Due

LEMMA PurgeBatchKeepsInv ==
  ASSUME RelayInv, PurgeBatch
  PROVE  RelayInv'
<1>1. RelayTypeOK /\ IssuedFinite /\ StoredAsIssued /\ LiveRemembered
      /\ VectorCountsOnce
  BY DEF RelayInv
<1>2. /\ DOMAIN pkg' \subseteq DOMAIN pkg
      /\ \A p \in DOMAIN pkg' : pkg'[p] = pkg[p] /\ acked'[p] = acked[p]
      /\ DOMAIN upload' \subseteq DOMAIN upload
      /\ \A k \in DOMAIN upload \ DOMAIN upload' : upload[k].expires <= now
      /\ \A k \in DOMAIN upload' : upload'[k] = upload[k]
      /\ UNCHANGED <<now, policyVars, deviceVars, vector, issued>>
      /\ purge' \in {purge, -1} /\ PackageTypes'
  BY <1>1, PurgeBatchTables
<1>3. RelayTypeOK'
  <2>1. PolicyTypes' /\ DeviceTypes'
    BY <1>1, <1>2, TypesByTable
    DEF policyVars, deviceVars, PolicyTypes, DeviceTypes
  <2>2. now' \in 0..LastDay /\ purge' \in -1..now'
    BY <1>1, <1>2, RelayConstants DEF RelayTypeOK
  <2> QED
    BY <1>2, <2>1, <2>2
    DEF RelayTypeOK, PackageTypes, PolicyTypes, DeviceTypes
<1>4. StoredAsIssued' /\ IssuedFinite'
  BY <1>1, <1>2 DEF StoredAsIssued, IssuedFinite
<1>5. LiveRemembered'
  <2>1. ASSUME NEW p \in DOMAIN pkg', pkg'[p].expires > now'
        PROVE  /\ UploadKeyOf(p)' \in DOMAIN upload'
               /\ upload'[UploadKeyOf(p)'].id = p
               /\ pkg'[p].expires <= upload'[UploadKeyOf(p)'].expires
    <3> DEFINE k == UploadKeyOf(p)
    <3>1. /\ UploadKeyOf(p)' = k /\ pkg'[p] = pkg[p] /\ now' = now
          /\ p \in DOMAIN pkg
      BY <1>2, <2>1 DEF UploadKeyOf
    <3>2. /\ k \in DOMAIN upload /\ upload[k].id = p
          /\ pkg[p].expires <= upload[k].expires
      BY <1>1, <2>1, <3>1 DEF LiveRemembered
    <3>3. /\ upload[k].expires \in Int /\ pkg[p].expires \in Int
          /\ now \in Int
      BY <1>1, <3>1, <3>2 DEF RelayTypeOK, RelayPackage, UploadResult
    <3> HIDE DEF k
    <3>4. k \in DOMAIN upload'
      BY <1>2, <2>1, <3>1, <3>2, <3>3
    <3> QED
      BY <1>2, <3>1, <3>2, <3>4
  <2> QED
    BY <2>1 DEF LiveRemembered
<1>6. VectorCountsOnce'
  <2>1. vector' = vector /\ issued' = issued
    BY <1>2
  <2> QED
    BY <1>1, <2>1 DEF VectorCountsOnce
<1> QED
  BY <1>1, <1>3, <1>4, <1>5, <1>6 DEF RelayInv

\* Steps that change at most the policy, the devices, the expiry of packages
\* (never to a later day), the clock and the purge run.
LEMMA QuietKeepsInv ==
  ASSUME RelayInv, PolicyTypes', DeviceTypes',
         enrolled \subseteq enrolled',
         now' \in now..LastDay, purge' \in -1..now',
         UNCHANGED <<acked, vector, upload, issued>>,
         DOMAIN pkg' = DOMAIN pkg,
         pkg' \in [DOMAIN pkg -> RelayPackage],
         \A p \in DOMAIN pkg : /\ pkg'[p].project = pkg[p].project
                               /\ pkg'[p].author = pkg[p].author
                               /\ pkg'[p].key = pkg[p].key
                               /\ pkg'[p].expires <= pkg[p].expires
  PROVE  RelayInv'
<1>1. RelayTypeOK /\ IssuedFinite /\ StoredAsIssued /\ LiveRemembered
      /\ VectorCountsOnce
  BY DEF RelayInv
<1>2. now \in 0..LastDay /\ LastDay \in Nat
  BY <1>1, RelayConstants DEF RelayTypeOK
<1>3. acked' \in [DOMAIN pkg' -> SUBSET enrolled']
  BY <1>1 DEF RelayTypeOK
<1>4. RelayTypeOK'
  BY <1>1, <1>2, <1>3 DEF RelayTypeOK, PolicyTypes, DeviceTypes
<1>5. StoredAsIssued' /\ IssuedFinite'
  BY <1>1 DEF StoredAsIssued, IssuedFinite
<1>6. LiveRemembered'
  <2>1. ASSUME NEW p \in DOMAIN pkg, pkg'[p].expires > now'
        PROVE  /\ UploadKeyOf(p)' \in DOMAIN upload'
               /\ upload'[UploadKeyOf(p)'].id = p
               /\ pkg'[p].expires <= upload'[UploadKeyOf(p)'].expires
    <3>1. UploadKeyOf(p)' = UploadKeyOf(p)
      BY DEF UploadKeyOf
    <3>2. /\ pkg[p].expires \in Int /\ pkg'[p].expires \in Int
          /\ pkg'[p].expires <= pkg[p].expires
      BY <1>1 DEF RelayTypeOK, RelayPackage
    <3>3. pkg[p].expires > now
      BY <1>2, <2>1, <3>2
    <3>4. /\ UploadKeyOf(p) \in DOMAIN upload
          /\ upload[UploadKeyOf(p)].id = p
          /\ pkg[p].expires <= upload[UploadKeyOf(p)].expires
      BY <1>1, <3>3 DEF LiveRemembered
    <3>5. upload[UploadKeyOf(p)].expires \in Int
      BY <1>1, <3>4 DEF RelayTypeOK, UploadResult
    <3> QED
      BY <3>1, <3>2, <3>4, <3>5
  <2> QED
    BY <2>1 DEF LiveRemembered
<1>7. VectorCountsOnce'
  BY <1>1 DEF VectorCountsOnce
<1> QED
  BY <1>1, <1>4, <1>5, <1>6, <1>7 DEF RelayInv

\* Packages are left as they are.
SamePackages == UNCHANGED <<pkg, acked, vector, upload, issued>>

LEMMA SamePackagesKeepInv ==
  ASSUME RelayInv, SamePackages, PolicyTypes', DeviceTypes',
         enrolled \subseteq enrolled',
         now' \in now..LastDay, purge' \in -1..now'
  PROVE  RelayInv'
<1>1. pkg \in [DOMAIN pkg -> RelayPackage]
  BY DEF RelayInv, RelayTypeOK
<1>2. \A p \in DOMAIN pkg : pkg[p].expires \in Int
  BY <1>1 DEF RelayPackage
<1>3. pkg' = pkg /\ UNCHANGED <<acked, vector, upload, issued>>
  BY DEF SamePackages
<1>4. \A p \in DOMAIN pkg : pkg'[p].expires <= pkg[p].expires
  BY <1>2, <1>3
<1> QED
  BY <1>1, <1>3, <1>4, QuietKeepsInv

\* The steps of the policy that leave the packages alone.
PolicyMove ==
    \/ \E c \in Call, u \in User, j \in Project :
          \/ CreateBegin(c, u, j)
          \/ \E patch \in Patch : PatchBegin(c, u, j, patch)
    \/ \E c \in Call : CreateCommit(c) \/ PatchCommit(c) \/ EditLost(c)
    \/ \E u \in User, j \in Project : AddMember(u, j) \/ RemoveMember(u, j)

Elsewhere == SamePackages /\ UNCHANGED <<now, deviceVars, purge>>

LEMMA PolicyMoveTypes ==
  ASSUME RelayTypeOK, PolicyMove
  PROVE  PolicyTypes' /\ Elsewhere
<1>1. ASSUME NEW c \in Call, NEW u \in User, NEW j \in Project,
             CreateBegin(c, u, j)
      PROVE  PolicyTypes' /\ Elsewhere
  BY <1>1, CreateBeginTypes
  DEF CreateBegin, Elsewhere, SamePackages, packageVars
<1>2. ASSUME NEW c \in Call, NEW u \in User, NEW j \in Project,
             NEW patch \in Patch, PatchBegin(c, u, j, patch)
      PROVE  PolicyTypes' /\ Elsewhere
  BY <1>2, PatchBeginTypes DEF PatchBegin, Elsewhere, SamePackages, packageVars
<1>3. ASSUME NEW c \in Call, CreateCommit(c) \/ PatchCommit(c)
      PROVE  PolicyTypes' /\ Elsewhere
  BY <1>3, CommitTypes
  DEF CreateCommit, PatchCommit, Elsewhere, SamePackages, packageVars
<1>4. ASSUME NEW c \in Call, EditLost(c)
      PROVE  PolicyTypes' /\ Elsewhere
  BY <1>4, EditKinds
  DEF EditLost, Elsewhere, SamePackages, packageVars, PolicyTypes, RelayTypeOK
<1>5. ASSUME NEW u \in User, NEW j \in Project,
             AddMember(u, j) \/ RemoveMember(u, j)
      PROVE  PolicyTypes' /\ Elsewhere
  <2>1. /\ j \in DOMAIN project /\ member' \subseteq member \cup {<<j, u>>}
        /\ UNCHANGED <<orgDays, project, edit>>
    BY <1>5 DEF AddMember, RemoveMember, Sees
  <2>2. PolicyTypes'
    BY <2>1 DEF PolicyTypes, RelayTypeOK
  <2> QED
    BY <1>5, <2>2
    DEF AddMember, RemoveMember, Elsewhere, SamePackages, packageVars
<1> QED
  BY <1>1, <1>2, <1>3, <1>4, <1>5 DEF PolicyMove

\* Every step but an upload, an acknowledgement and a batch of the purge keeps
\* every package.
LEMMA QuietSteps ==
  ASSUME RelayInv,
         \/ PolicyStep \/ NextDay \/ PurgeStart \/ PurgeFails
         \/ UNCHANGED relayVars
  PROVE  RelayInv' /\ DOMAIN pkg' = DOMAIN pkg
<1>1. /\ RelayTypeOK /\ PolicyTypes /\ DeviceTypes
      /\ now \in 0..LastDay /\ purge \in -1..now /\ LastDay \in Nat
  BY TypesByTable, RelayConstants DEF RelayInv
<1>2. now \in now..LastDay /\ -1 \in -1..now /\ now \in -1..now
  BY <1>1
<1>3. CASE PolicyMove
  <2>1. PolicyTypes' /\ SamePackages /\ UNCHANGED <<now, deviceVars, purge>>
    BY <1>1, <1>3, PolicyMoveTypes DEF Elsewhere
  <2>2. DeviceTypes' /\ enrolled' = enrolled
    BY <1>1, <2>1 DEF DeviceTypes, deviceVars
  <2>3. now' \in now..LastDay /\ purge' \in -1..now'
    BY <1>1, <1>2, <2>1
  <2> QED
    BY <2>1, <2>2, <2>3, SamePackagesKeepInv DEF SamePackages
<1>4. CASE \E d \in Device : Enrol(d) \/ Revoke(d)
  <2>1. DeviceTypes' /\ enrolled \subseteq enrolled'
    BY <1>1, <1>4 DEF Enrol, Revoke, DeviceTypes
  <2>2. /\ UNCHANGED <<now, purge, orgDays, project, member, edit>>
        /\ SamePackages
    BY <1>4 DEF Enrol, Revoke, SamePackages, packageVars, policyVars
  <2>3. PolicyTypes'
    BY <1>1, <2>2 DEF PolicyTypes
  <2>4. now' \in now..LastDay /\ purge' \in -1..now'
    BY <1>1, <1>2, <2>2
  <2> QED
    BY <2>1, <2>2, <2>3, <2>4, SamePackagesKeepInv DEF SamePackages
<1>5. CASE \E days \in Windows : Configure(days)
  <2>1. PICK days \in Windows : Configure(days)
    BY <1>5
  <2>2. /\ PolicyTypes' /\ DOMAIN pkg' = DOMAIN pkg
        /\ pkg' \in [DOMAIN pkg -> RelayPackage]
        /\ \A p \in DOMAIN pkg : /\ pkg'[p].project = pkg[p].project
                                 /\ pkg'[p].author = pkg[p].author
                                 /\ pkg'[p].key = pkg[p].key
                                 /\ pkg'[p].expires <= pkg[p].expires
    BY <1>1, <2>1, ConfigureTypes
  <2>3. UNCHANGED <<now, purge, enrolled, revoked, acked, vector, upload,
                    issued>>
    BY <2>1 DEF Configure, deviceVars
  <2>4. DeviceTypes' /\ now' \in now..LastDay /\ purge' \in -1..now'
    BY <1>1, <1>2, <2>3 DEF DeviceTypes
  <2> QED
    BY <2>2, <2>3, <2>4, QuietKeepsInv
<1>6. CASE NextDay \/ PurgeStart \/ PurgeFails \/ UNCHANGED relayVars
  <2>1. UNCHANGED <<orgDays, project, member, edit, enrolled, revoked>>
        /\ SamePackages
    BY <1>6
    DEF NextDay, PurgeStart, PurgeFails, relayVars, policyVars, deviceVars,
        packageVars, SamePackages
  <2>2. now' \in now..LastDay /\ purge' \in -1..now'
    BY <1>1, <1>2, <1>6 DEF NextDay, PurgeStart, PurgeFails, relayVars
  <2>3. PolicyTypes' /\ DeviceTypes'
    BY <1>1, <2>1 DEF PolicyTypes, DeviceTypes
  <2> QED
    BY <2>1, <2>2, <2>3, SamePackagesKeepInv DEF SamePackages
<1> QED
  BY <1>3, <1>4, <1>5, <1>6 DEF PolicyStep, PolicyMove

LEMMA RelayInvInit ==
  ASSUME RelayInit
  PROVE  RelayInv
<1>1. LastDay \in Nat /\ Windows \subseteq 1..HardMax /\ HardMax \in Nat
  BY RelayConstants
<1>2. /\ DOMAIN project = {} /\ DOMAIN pkg = {} /\ DOMAIN acked = {}
      /\ DOMAIN upload = {} /\ DOMAIN issued = {}
  BY DEF RelayInit
<1>3. RelayTypeOK
  <2>1. PolicyTypes
    BY <1>1, <1>2 DEF RelayInit, PolicyTypes, Edit, NoEdit
  <2>2. PackageTypes
    BY <1>2 DEF RelayInit, PackageTypes
  <2> QED
    BY <1>1, <2>1, <2>2, TypesByTable DEF RelayInit, DeviceTypes
<1>4. VectorCountsOnce
  <2>1. ASSUME NEW j \in Project, NEW d \in Device
        PROVE  vector[<<j, d>>] = Cardinality(WrittenBy(j, d))
                                  + Cardinality(SeenBy(j, d))
    <3>1. WrittenBy(j, d) = {} /\ SeenBy(j, d) = {}
      BY <1>2 DEF WrittenBy, SeenBy
    <3>2. vector[<<j, d>>] = 0
      BY DEF RelayInit
    <3> QED
      BY <3>1, <3>2, FS_EmptySet
  <2> QED
    BY <2>1 DEF VectorCountsOnce, WrittenBy, SeenBy
<1>5. IssuedFinite /\ StoredAsIssued /\ LiveRemembered
  BY <1>2, FS_EmptySet DEF IssuedFinite, StoredAsIssued, LiveRemembered
<1> QED
  BY <1>3, <1>4, <1>5 DEF RelayInv

\* RelayInv is inductive.
LEMMA RelayInvStep ==
  ASSUME RelayInv, [RelayNext]_relayVars
  PROVE  RelayInv'
  BY UploadKeepsInv, AcknowledgeKeepsInv, PurgeBatchKeepsInv, QuietSteps
  DEF RelayNext, PurgeStep

LEMMA RelayInvariant == RelaySpec => []RelayInv
<1>1. RelayInit => RelayInv
  BY RelayInvInit
<1>2. RelayInv /\ [RelayNext]_relayVars => RelayInv'
  BY RelayInvStep
<1> QED
  BY <1>1, <1>2, PTL DEF RelaySpec

\* The relay's tables keep their types.
THEOREM RelayTypesHold == RelaySpec => []RelayTypeOK
<1>1. RelayInv => RelayTypeOK
  BY DEF RelayInv
<1> QED
  BY <1>1, RelayInvariant, PTL

\* No two live copies of one upload are stored, however often it is sent and
\* whatever expired meanwhile (uploadPackage and its idempotency key).
THEOREM OneLiveCopy == RelaySpec => []OneLiveCopyPerUpload
<1>1. RelayInv => OneLiveCopyPerUpload
  BY DEF RelayInv, LiveRemembered, OneLiveCopyPerUpload
<1> QED
  BY <1>1, RelayInvariant, PTL

\* A device's counter is what it wrote and saw, each once (relay_vectors).
THEOREM VectorsCount == RelaySpec => []VectorCountsOnce
<1>1. RelayInv => VectorCountsOnce
  BY DEF RelayInv
<1> QED
  BY <1>1, RelayInvariant, PTL

\* A package that leaves before its expiry was acknowledged by every active
\* device of its project (acknowledge, runPurge).
THEOREM EarlyOnlyWhenDone == RelaySpec => PurgedEarlyOnlyWhenDone
<1> DEFINE Early ==
      \A p \in DOMAIN pkg \ DOMAIN pkg' :
          pkg[p].expires <= now
          \/ \A d \in Audience(pkg[p].project) : d \in issued'[p].seen
<1>1. RelayInv /\ [RelayNext]_relayVars => [Early]_relayVars
  <2> SUFFICES ASSUME RelayInv, RelayNext PROVE Early
    OBVIOUS
  <2>1. RelayTypeOK /\ IssuedFinite /\ StoredAsIssued
        /\ DOMAIN pkg \subseteq DOMAIN issued
    BY DEF RelayInv, RelayTypeOK
  <2>2. ASSUME NEW d \in Device, NEW j \in Project, NEW key \in Key,
               NEW p \in Package, NEW size \in Sizes,
               Upload(d, j, key, p, size)
        PROVE  Early
    <3>1. UploadEffect(d, j, key, p)
      BY <2>1, <2>2, UploadTables
    <3>2. DOMAIN pkg \subseteq DOMAIN pkg'
      BY <3>1 DEF UploadEffect
    <3> QED
      BY <3>2
  <2>3. ASSUME NEW d \in Device, NEW ids \in SUBSET Package,
               Acknowledge(d, ids)
        PROVE  Early
    <3>1. AckEffect(d, New(d, ids))
      BY <2>1, <2>3, AcknowledgeTables
    <3>2. ASSUME NEW p \in DOMAIN pkg \ DOMAIN pkg'
          PROVE  \A e \in Audience(pkg[p].project) : e \in issued'[p].seen
      <4>1. /\ p \in New(d, ids) /\ p \in DOMAIN issued
            /\ Audience(pkg[p].project) \subseteq acked[p] \cup {d}
        BY <2>1, <3>1, <3>2 DEF AckEffect
      <4>2. issued'[p].seen = acked[p] \cup {d}
        BY <2>1, <3>1, <3>2, <4>1 DEF AckEffect, StoredAsIssued
      <4> QED
        BY <4>1, <4>2
    <3> QED
      BY <3>2
  <2>4. CASE PurgeBatch
    BY <2>1, <2>4, PurgeBatchTables
  <2>5. CASE PolicyStep \/ NextDay \/ PurgeStart \/ PurgeFails
    BY <2>5, QuietSteps
  <2> QED
    BY <2>2, <2>3, <2>4, <2>5 DEF RelayNext, PurgeStep
<1> QED
  BY <1>1, RelayInvariant, PTL DEF RelaySpec, PurgedEarlyOnlyWhenDone

-----------------------------------------------------------------------------
\* Storage

\* The bytes of a set of rows do not change where the rows keep their sizes.
LEMMA BytesKept ==
  ASSUME NEW S, IsFiniteSet(S), NEW T, T \subseteq S, NEW f, NEW g,
         \A p \in S : f[p].size \in Nat,
         \A p \in T : g[p].size = f[p].size
  PROVE  SumFunction([p \in T |-> g[p].size])
           <= SumFunction([p \in S |-> f[p].size])
<1> DEFINE fs == [p \in S |-> f[p].size]
           gs == [p \in T |-> g[p].size]
<1>1. /\ \A p \in T : gs[p] \in Nat /\ gs[p] <= fs[p]
      /\ \A p \in S : fs[p] \in Nat
      /\ DOMAIN fs = S /\ DOMAIN gs = T
  OBVIOUS
<1>2. SumFunctionOnSet(gs, T) <= SumFunctionOnSet(fs, S)
  <2> HIDE DEF fs, gs
  <2> QED
    BY <1>1, SumMonotone
<1> QED
  BY <1>1, <1>2 DEF SumFunction

LEMMA BytesNatural ==
  ASSUME NEW S, IsFiniteSet(S), NEW f, \A p \in S : f[p].size \in Nat
  PROVE  SumFunction([p \in S |-> f[p].size]) \in Nat
<1> DEFINE fs == [p \in S |-> f[p].size]
<1>1. (\A p \in S : fs[p] \in Nat) /\ DOMAIN fs = S
  OBVIOUS
<1>2. SumFunctionOnSet(fs, S) \in Nat
  <2> HIDE DEF fs
  <2> QED
    BY <1>1, SumNatural
<1> QED
  BY <1>1, <1>2 DEF SumFunction

LEMMA StoredIsFinite ==
  ASSUME RelayInv
  PROVE  /\ IsFiniteSet(DOMAIN pkg)
         /\ \A j \in Project : IsFiniteSet(OfProject(j))
         /\ \A p \in DOMAIN pkg : pkg[p].size \in Nat
<1>1. /\ DOMAIN pkg \in SUBSET DOMAIN issued
      /\ \A j \in Project : OfProject(j) \in SUBSET DOMAIN issued
      /\ IsFiniteSet(DOMAIN issued)
  BY DEF RelayInv, RelayTypeOK, IssuedFinite, OfProject
<1>2. \A p \in DOMAIN pkg : pkg[p].size \in Nat
  BY RelayConstants DEF RelayInv, RelayTypeOK, RelayPackage
<1> QED
  BY <1>1, <1>2, FS_Subset

\* Rows leave, or keep their project and size.
RowsKept ==
    /\ DOMAIN pkg' \subseteq DOMAIN pkg
    /\ \A p \in DOMAIN pkg' : /\ pkg'[p].project = pkg[p].project
                              /\ pkg'[p].size = pkg[p].size

LEMMA RowsKeptFit ==
  ASSUME RelayInv, StorageBounded, RowsKept, RelayInv'
  PROVE  StorageBounded'
<1>1. OrgCeiling \in Nat /\ ProjectCeiling \in Nat
  BY RelayConstants
<1>2. ASSUME NEW T, NEW S, T \subseteq DOMAIN pkg', S \subseteq DOMAIN pkg,
             T \subseteq S, IsFiniteSet(S), IsFiniteSet(T),
             NEW n \in Nat, Bytes(S) <= n
      PROVE  SumFunction([p \in T |-> pkg'[p].size]) <= n
  <2>1. /\ \A p \in S : pkg[p].size \in Nat
        /\ \A p \in T : pkg'[p].size = pkg[p].size /\ pkg'[p].size \in Nat
    BY <1>2, StoredIsFinite DEF RowsKept
  <2>2. SumFunction([p \in T |-> pkg'[p].size])
          <= SumFunction([p \in S |-> pkg[p].size])
    BY <1>2, <2>1, BytesKept
  <2>3. /\ SumFunction([p \in T |-> pkg'[p].size]) \in Nat
        /\ SumFunction([p \in S |-> pkg[p].size]) \in Nat
    BY <1>2, <2>1, BytesNatural
  <2> QED
    BY <1>2, <2>2, <2>3 DEF Bytes
<1>3. Bytes(DOMAIN pkg)' <= OrgCeiling
  <2>1. /\ IsFiniteSet(DOMAIN pkg) /\ IsFiniteSet(DOMAIN pkg')
        /\ DOMAIN pkg' \subseteq DOMAIN pkg
    BY StoredIsFinite, FS_Subset DEF RowsKept
  <2>2. Bytes(DOMAIN pkg) <= OrgCeiling
    BY DEF StorageBounded
  <2>3. SumFunction([p \in DOMAIN pkg' |-> pkg'[p].size]) <= OrgCeiling
    BY <1>1, <1>2, <2>1, <2>2
  <2> QED
    BY <2>3 DEF Bytes
<1>4. ASSUME NEW j \in Project
      PROVE  Bytes(OfProject(j))' <= ProjectCeiling
  <2>1. /\ IsFiniteSet(OfProject(j)) /\ OfProject(j) \subseteq DOMAIN pkg
        /\ OfProject(j)' \subseteq DOMAIN pkg'
        /\ OfProject(j)' \subseteq OfProject(j)
    BY StoredIsFinite DEF RowsKept, OfProject
  <2>2. IsFiniteSet(OfProject(j)')
    BY <2>1, FS_Subset
  <2>3. Bytes(OfProject(j)) <= ProjectCeiling
    BY DEF StorageBounded
  <2>4. SumFunction([p \in OfProject(j)' |-> pkg'[p].size]) <= ProjectCeiling
    BY <1>1, <1>2, <2>1, <2>2, <2>3
  <2> QED
    BY <2>4 DEF Bytes
<1> QED
  BY <1>3, <1>4 DEF StorageBounded

LEMMA UploadFits ==
  ASSUME RelayInv, StorageBounded, RelayInv',
         NEW d \in Device, NEW j \in Project, NEW key \in Key,
         NEW p \in Package, NEW size \in Sizes, Upload(d, j, key, p, size)
  PROVE  StorageBounded'
<1>1. /\ RelayTypeOK /\ size \in Nat
      /\ OrgCeiling \in Nat /\ ProjectCeiling \in Nat
  BY RelayConstants DEF RelayInv
<1>2. /\ DOMAIN pkg' = DOMAIN pkg \cup {p} /\ p \notin DOMAIN pkg
      /\ pkg'[p].project = j /\ pkg'[p].size = size
      /\ \A q \in DOMAIN pkg : pkg'[q] = pkg[q]
  <2>1. UploadEffect(d, j, key, p)
    BY <1>1, UploadTables
  <2>2. pkg'[p].size = size
    BY DEF Upload, Extended
  <2> QED
    BY <2>1, <2>2 DEF UploadEffect
<1>3. /\ Bytes(OfProject(j)) + size <= ProjectCeiling
      /\ Bytes(DOMAIN pkg) + size <= OrgCeiling
  BY DEF Upload, Fits
<1>4. \A q \in DOMAIN pkg : pkg[q].size \in Nat /\ pkg'[q].size = pkg[q].size
  BY <1>2, StoredIsFinite
<1>5. ASSUME NEW S, S \subseteq DOMAIN pkg, IsFiniteSet(S), NEW T, T = S \cup {p}
      PROVE  SumFunction([q \in T |-> pkg'[q].size])
               = SumFunction([q \in S |-> pkg[q].size]) + pkg'[p].size
  <2>1. /\ p \notin S /\ pkg'[p].size \in Nat
        /\ \A q \in S : pkg[q].size \in Nat /\ pkg'[q].size = pkg[q].size
    BY <1>1, <1>2, <1>4, <1>5
  <2> DEFINE old == [q \in S |-> pkg[q].size]
             new == [q \in T |-> pkg'[q].size]
  <2>2. /\ \A q \in S : old[q] \in Nat /\ new[q] = old[q]
        /\ new[p] \in Nat /\ new[p] = pkg'[p].size
        /\ DOMAIN old = S /\ DOMAIN new = T
    BY <1>5, <2>1
  <2>3. SumFunctionOnSet(new, S \cup {p}) = SumFunctionOnSet(old, S) + new[p]
    <3> HIDE DEF old, new
    <3> QED
      BY <1>5, <2>1, <2>2, SumWith
  <2> QED
    BY <1>5, <2>2, <2>3 DEF SumFunction
<1>6. Bytes(DOMAIN pkg)' <= OrgCeiling
  <2>1. SumFunction([q \in DOMAIN pkg \cup {p} |-> pkg'[q].size])
          = SumFunction([q \in DOMAIN pkg |-> pkg[q].size]) + size
    BY <1>2, <1>5, StoredIsFinite
  <2>2. Bytes(DOMAIN pkg)' = Bytes(DOMAIN pkg) + size
    BY <1>2, <2>1 DEF Bytes
  <2> QED
    BY <1>3, <2>2
<1>7. Bytes(OfProject(j))' <= ProjectCeiling
  <2>1. OfProject(j)' = OfProject(j) \cup {p} /\ OfProject(j) \subseteq DOMAIN pkg
    BY <1>2 DEF OfProject
  <2>2. SumFunction([q \in OfProject(j) \cup {p} |-> pkg'[q].size])
          = SumFunction([q \in OfProject(j) |-> pkg[q].size]) + size
    BY <1>2, <1>5, <2>1, StoredIsFinite
  <2>3. Bytes(OfProject(j))' = Bytes(OfProject(j)) + size
    BY <2>1, <2>2 DEF Bytes
  <2> QED
    BY <1>3, <2>3
<1>8. ASSUME NEW k \in Project, k # j
      PROVE  Bytes(OfProject(k))' <= ProjectCeiling
  <2>1. OfProject(k)' = OfProject(k)
        /\ \A q \in OfProject(k) : pkg'[q].size = pkg[q].size
    BY <1>2, <1>8 DEF OfProject
  <2>2. [q \in OfProject(k)' |-> pkg'[q].size]
          = [q \in OfProject(k) |-> pkg[q].size]
    BY <2>1
  <2>3. Bytes(OfProject(k))' = Bytes(OfProject(k))
    BY <2>2 DEF Bytes
  <2> QED
    BY <2>3 DEF StorageBounded
<1> QED
  BY <1>6, <1>7, <1>8 DEF StorageBounded

LEMMA OtherStepsKeepRows ==
  ASSUME RelayInv,
         \/ \E d \in Device, ids \in SUBSET Package : Acknowledge(d, ids)
         \/ PolicyStep \/ NextDay \/ PurgeStep \/ UNCHANGED relayVars
  PROVE  RowsKept
<1>1. RelayTypeOK /\ IssuedFinite /\ StoredAsIssued
  BY DEF RelayInv
<1>2. CASE \E d \in Device, ids \in SUBSET Package : Acknowledge(d, ids)
  <2>1. PICK d \in Device, ids \in SUBSET Package : Acknowledge(d, ids)
    BY <1>2
  <2>2. AckEffect(d, New(d, ids))
    BY <1>1, <2>1, AcknowledgeTables
  <2> QED
    BY <2>2 DEF AckEffect, RowsKept
<1>3. CASE PurgeBatch
  BY <1>1, <1>3, PurgeBatchTables DEF RowsKept
<1>4. CASE \E days \in Windows : Configure(days)
  <2>1. PICK days \in Windows : Configure(days)
    BY <1>4
  <2>2. pkg \in [DOMAIN pkg -> RelayPackage]
    BY <1>1 DEF RelayTypeOK
  <2> QED
    BY <2>1, <2>2 DEF Configure, RowsKept, RelayPackage
<1>5. CASE UNCHANGED pkg
  BY <1>5 DEF RowsKept
<1>6. UNCHANGED pkg \/ PurgeBatch \/ (\E days \in Windows : Configure(days))
      \/ \E d \in Device, ids \in SUBSET Package : Acknowledge(d, ids)
  <2>1. CASE PolicyMove
    BY <1>1, <2>1, PolicyMoveTypes DEF Elsewhere, SamePackages
  <2>2. CASE \E d \in Device : Enrol(d) \/ Revoke(d)
    BY <2>2 DEF Enrol, Revoke, packageVars
  <2>3. CASE NextDay \/ PurgeStart \/ PurgeFails \/ UNCHANGED relayVars
    BY <2>3 DEF NextDay, PurgeStart, PurgeFails, relayVars, packageVars
  <2> QED
    BY <2>1, <2>2, <2>3 DEF PolicyStep, PolicyMove, PurgeStep
<1> QED
  BY <1>2, <1>3, <1>4, <1>5, <1>6

\* What is stored never exceeds the ceilings of the organisation and of each
\* project, packages that expired and wait for the purge included
\* (withinCeiling in uploadPackage).
THEOREM StorageWithinCeilings == RelaySpec => []StorageBounded
<1>1. RelayInit => StorageBounded
  <2> SUFFICES ASSUME RelayInit PROVE StorageBounded
    OBVIOUS
  <2>1. DOMAIN pkg = {} /\ \A j \in Project : OfProject(j) = {}
    BY DEF RelayInit, OfProject
  <2>2. Bytes({}) = 0
    <3> DEFINE f == [p \in {} |-> pkg[p].size]
    <3>1. SumFunctionOnSet(f, DOMAIN f) = 0
      <4>1. DOMAIN f = {}
        OBVIOUS
      <4> HIDE DEF f
      <4> QED
        BY <4>1, SumEmpty
    <3>2. Bytes({}) = SumFunctionOnSet(f, DOMAIN f)
      BY DEF Bytes, SumFunction
    <3> QED
      BY <3>1, <3>2
  <2>3. Bytes(DOMAIN pkg) = 0 /\ \A j \in Project : Bytes(OfProject(j)) = 0
    BY <2>1, <2>2
  <2>4. OrgCeiling \in Nat /\ ProjectCeiling \in Nat
    BY RelayConstants
  <2> QED
    BY <2>3, <2>4 DEF StorageBounded
<1>2. RelayInv /\ RelayInv' /\ StorageBounded /\ [RelayNext]_relayVars
        => StorageBounded'
  BY UploadFits, OtherStepsKeepRows, RowsKeptFit DEF RelayNext
<1> QED
  BY <1>1, <1>2, RelayInvariant, PTL DEF RelaySpec

-----------------------------------------------------------------------------
(* The server and its devices *)

\* The packages a device wrote, and those it may acknowledge.
Written(d) == {p \in DOMAIN issued : issued[p].author = d}

Held(d) == applied[d] \cup Written(d)

\* A sent row names the package the server answered with, and every owed
\* acknowledgement is of a package in held.
Document(state, held) ==
    /\ state \in State
    /\ \A k \in Key : state.rows[k].status = "sent"
                        => state.rows[k].id \in Package
    /\ state.acks \subseteq held

JobOK(job, held, merged) ==
    /\ job \in Running
    /\ Document(job.mem, held)
    /\ job.at \in {"queueRead", "queueWrite"} => job.key # {}
    /\ job.at \in {"appliedRead", "appliedWrite"} => job.id \subseteq merged

DeviceTables ==
    /\ disk \in [Device -> State]
    /\ blob \in [Device -> SUBSET Key]
    /\ run \in [Device -> [Job -> Running]]
    /\ applied \in [Device -> SUBSET Package]
    /\ confirmed \in [Device -> SUBSET Key]

\* What the server's tables say of who wrote and who has a package.
ServerAgrees ==
    /\ \A p \in DOMAIN pkg : /\ issued[p].author = pkg[p].author
                             /\ \A d \in acked[p] : p \in Held(d)
    /\ \A x \in DOMAIN upload : upload[x].id \in Written(x[2])

DevicesHold ==
    \A d \in Device : /\ Document(disk[d], Held(d))
                      /\ \A w \in Job : JobOK(run[d][w], Held(d), applied[d])

ExchangeInv == RelayInv /\ DeviceTables /\ ServerAgrees /\ DevicesHold

\* The outbox of a device whose one job is job: a queued row has its
\* ciphertext, and the job's memory holds the rows as they are stored, up to
\* sent rows it found purged.
Outbox(doc, ciphertext, promised, job) ==
    /\ \A k \in Key : doc.rows[k].status = "queued" => k \in ciphertext
    /\ \A k \in promised : doc.rows[k].status # "none"
    /\ job.at \in {"policy", "upload", "clean", "ack", "queueWrite",
                   "appliedWrite"} => job.mem.rows = doc.rows
    /\ job.at = "check" =>
         \A k \in Key : \/ job.mem.rows[k].status = doc.rows[k].status
                        \/ /\ doc.rows[k].status = "sent"
                           /\ job.mem.rows[k].status = "purged"
    /\ job.at = "clean" =>
         \A k \in job.key : doc.rows[k].status = "sent"
    /\ job.at \in {"queueRead", "queueWrite"} => job.key \subseteq ciphertext

OutboxInv ==
    \A d \in Device, w \in Job :
        Outbox(disk[d], blob[d], confirmed[d], run[d][w])

-----------------------------------------------------------------------------
\* The server beside its devices

LEMMA ProjectChosen == J \in Project
  BY ExchangeConstants DEF J

\* Every step is one of the server's, or leaves it alone.
LEMMA ServerSteps ==
  ASSUME [Next]_vars
  PROVE  [RelayNext]_relayVars
<1>1. CASE UNCHANGED vars
  BY <1>1 DEF vars
<1>2. CASE ServerStep
  BY <1>2 DEF ServerStep, RelayNext
<1>3. ASSUME NEW d \in Device, Crash(d)
      PROVE  UNCHANGED relayVars
  BY <1>3 DEF Crash
<1>4. ASSUME NEW d \in Device, NEW w \in Job,
             QueueStep(d, w) \/ ReceiveStep(d, w) \/ Stops(d, w)
      PROVE  UNCHANGED relayVars
  BY <1>4 DEF QueueStep, ReceiveStep, Stops, QueueBlob, QueueRead, QueueWrite,
              Receive, Merge, AppliedRead, AppliedWrite
<1>5. ASSUME NEW d \in Device, NEW w \in Job, SyncStep(d, w)
      PROVE  [RelayNext]_relayVars
  <2>1. ASSUME NEW k \in Key, SendRow(d, w, k)
        PROVE  [RelayNext]_relayVars
    BY <2>1, ProjectChosen DEF SendRow, Uploads, RelayNext
  <2>2. ASSUME NEW p \in Package, SendAck(d, w, p)
        PROVE  [RelayNext]_relayVars
    <3>1. {p} \in SUBSET Package /\ Acknowledge(d, {p})
      BY <2>2 DEF SendAck
    <3> QED
      BY <3>1 DEF RelayNext
  <2>3. ASSUME \/ SyncBegin(d, w) \/ SyncRead(d, w) \/ SyncPolicy(d, w)
               \/ \E k \in Key : CheckSent(d, w, k)
               \/ SendClean(d, w) \/ SendDone(d, w)
               \/ ReadInbox(d, w) \/ SyncWrite(d, w)
        PROVE  UNCHANGED relayVars
    BY <2>3 DEF SyncBegin, SyncRead, SyncPolicy, CheckSent, SendClean,
                SendDone, ReadInbox, SyncWrite
  <2> QED
    BY <1>5, <2>1, <2>2, <2>3 DEF SyncStep
<1> QED
  BY <1>1, <1>2, <1>3, <1>4, <1>5 DEF Next

\* The relay and its devices implement the specification of the server alone:
\* no job, crash or lost answer of a device makes the server do what its own
\* handlers do not (relay_queue.dart against services/relay).
THEOREM ExchangeImplementsRelay == Spec => RelaySpec
<1>1. Spec => RelayInit
  BY DEF Spec
<1>2. [Next]_vars => [RelayNext]_relayVars
  BY ServerSteps
<1> QED
  BY <1>1, <1>2, PTL DEF Spec, RelaySpec

\* What a step of the server leaves of who wrote a package.
LEMMA QuietTables ==
  ASSUME RelayInv,
         \/ PolicyStep \/ NextDay \/ PurgeStart \/ PurgeFails
         \/ UNCHANGED relayVars
  PROVE  /\ UNCHANGED <<acked, upload, issued>>
         /\ DOMAIN pkg' = DOMAIN pkg
         /\ \A p \in DOMAIN pkg : pkg'[p].author = pkg[p].author
<1>1. RelayTypeOK
  BY DEF RelayInv
<1>2. CASE PolicyMove
  BY <1>1, <1>2, PolicyMoveTypes DEF Elsewhere, SamePackages
<1>3. CASE \E d \in Device : Enrol(d) \/ Revoke(d)
  BY <1>3 DEF Enrol, Revoke, packageVars
<1>4. CASE \E days \in Windows : Configure(days)
  <2>1. PICK days \in Windows : Configure(days)
    BY <1>4
  <2>2. /\ DOMAIN pkg' = DOMAIN pkg
        /\ \A p \in DOMAIN pkg : pkg'[p].author = pkg[p].author
    BY <1>1, <2>1, ConfigureTypes
  <2> QED
    BY <2>1, <2>2 DEF Configure
<1>5. CASE NextDay \/ PurgeStart \/ PurgeFails \/ UNCHANGED relayVars
  BY <1>5 DEF NextDay, PurgeStart, PurgeFails, relayVars, packageVars
<1> QED
  BY <1>2, <1>3, <1>4, <1>5 DEF PolicyStep, PolicyMove

\* A step of the server forgets no author; the packages it knows to be
\* acknowledged grow only by an acknowledgement.
LEMMA ServerKeepsAuthors ==
  ASSUME RelayInv, ServerAgrees,
         \A d \in Device : applied[d] \subseteq applied'[d],
         \/ PolicyStep \/ NextDay \/ PurgeStep \/ UNCHANGED relayVars
         \/ \E d \in Device, k \in Key, p \in Package, size \in Sizes :
               Upload(d, J, k, p, size)
         \/ \E d \in Device, p \in Package :
               Acknowledge(d, {p}) /\ p \in Held(d)
  PROVE  /\ ServerAgrees'
         /\ \A d \in Device : Written(d) \subseteq Written(d)'
         /\ \A d \in Device : Held(d) \subseteq Held(d)'
<1>1. /\ RelayTypeOK /\ IssuedFinite /\ StoredAsIssued
      /\ DOMAIN pkg \subseteq DOMAIN issued
      /\ acked \in [DOMAIN pkg -> SUBSET enrolled] /\ enrolled \subseteq Device
      /\ DOMAIN upload \subseteq UploadKey
  BY DEF RelayInv, RelayTypeOK
<1>2. CASE PolicyStep \/ NextDay \/ PurgeStart \/ PurgeFails
           \/ UNCHANGED relayVars
  <2>1. /\ UNCHANGED <<acked, upload, issued>>
        /\ DOMAIN pkg' = DOMAIN pkg
        /\ \A p \in DOMAIN pkg : pkg'[p].author = pkg[p].author
    BY <1>2, QuietTables
  <2> QED
    BY <1>1, <2>1 DEF ServerAgrees, Held, Written
<1>3. CASE PurgeBatch
  <2>1. /\ DOMAIN pkg' \subseteq DOMAIN pkg
        /\ \A p \in DOMAIN pkg' : pkg'[p] = pkg[p] /\ acked'[p] = acked[p]
        /\ DOMAIN upload' \subseteq DOMAIN upload
        /\ \A k \in DOMAIN upload' : upload'[k] = upload[k]
        /\ issued' = issued
    BY <1>1, <1>3, PurgeBatchTables
  <2> QED
    BY <1>1, <2>1 DEF ServerAgrees, Held, Written
<1>4. ASSUME NEW d \in Device, NEW key \in Key, NEW p \in Package,
             NEW size \in Sizes, Upload(d, J, key, p, size)
      PROVE  /\ ServerAgrees'
             /\ \A e \in Device : Written(e) \subseteq Written(e)'
             /\ \A e \in Device : Held(e) \subseteq Held(e)'
  <2>1. UploadEffect(d, J, key, p)
    BY <1>1, <1>4, ProjectChosen, UploadTables
  <2>2. \A e : Written(e) \subseteq Written(e)'
    BY <2>1 DEF UploadEffect, Written
  <2>3. \A e \in Device : Held(e) \subseteq Held(e)'
    BY <2>2 DEF Held
  <2>4. ASSUME NEW q \in DOMAIN pkg'
        PROVE  issued'[q].author = pkg'[q].author
               /\ \A e \in acked'[q] : q \in Held(e)'
    <3>1. CASE q = p
      BY <2>1, <3>1 DEF UploadEffect
    <3>2. CASE q \in DOMAIN pkg
      BY <1>1, <2>1, <2>3, <3>2 DEF UploadEffect, ServerAgrees
    <3> QED
      BY <2>1, <3>1, <3>2 DEF UploadEffect
  <2>5. ASSUME NEW x \in DOMAIN upload'
        PROVE  upload'[x].id \in Written(x[2])'
    <3>1. CASE x = <<J, d, key>>
      BY <2>1, <3>1 DEF UploadEffect, Written
    <3>2. CASE x \in DOMAIN upload \ {<<J, d, key>>}
      BY <2>1, <2>2, <3>2 DEF UploadEffect, ServerAgrees
    <3> QED
      BY <2>1, <3>1, <3>2 DEF UploadEffect
  <2> QED
    BY <2>2, <2>3, <2>4, <2>5 DEF ServerAgrees
<1>5. ASSUME NEW d \in Device, NEW p \in Package, Acknowledge(d, {p}),
             p \in Held(d)
      PROVE  /\ ServerAgrees'
             /\ \A e \in Device : Written(e) \subseteq Written(e)'
             /\ \A e \in Device : Held(e) \subseteq Held(e)'
  <2>1. AckEffect(d, New(d, {p}))
    <3>1. {p} \in SUBSET Package
      OBVIOUS
    <3> QED
      BY <1>1, <1>5, <3>1, AcknowledgeTables
  <2>2. New(d, {p}) \subseteq {p} /\ upload' = upload
    BY <1>5 DEF New, Acknowledge
  <2>3. \A e : Written(e)' = Written(e)
    BY <2>1 DEF AckEffect, Written
  <2>4. \A e \in Device : Held(e) \subseteq Held(e)'
    BY <2>3 DEF Held
  <2>5. ASSUME NEW q \in DOMAIN pkg'
        PROVE  issued'[q].author = pkg'[q].author
               /\ \A e \in acked'[q] : q \in Held(e)'
    <3>1. /\ q \in DOMAIN pkg /\ pkg'[q] = pkg[q] /\ q \in DOMAIN issued
          /\ acked'[q] \subseteq acked[q] \cup {d}
          /\ d \in acked'[q] => d \in acked[q] \/ q = p
      BY <1>1, <2>1, <2>2 DEF AckEffect
    <3>2. issued'[q].author = issued[q].author
      BY <2>1, <3>1 DEF AckEffect
    <3> QED
      BY <1>1, <1>5, <2>4, <3>1, <3>2 DEF ServerAgrees
  <2>6. \A x \in DOMAIN upload' : upload'[x].id \in Written(x[2])'
    BY <2>2, <2>3 DEF ServerAgrees
  <2> QED
    BY <2>3, <2>4, <2>5, <2>6 DEF ServerAgrees
<1> QED
  BY <1>2, <1>3, <1>4, <1>5 DEF PurgeStep

-----------------------------------------------------------------------------
\* One job of one device

\* The job of a device moves to job, and its tables to doc, ciphertext,
\* promised and merged.
Moves(d, w, job, doc, ciphertext, promised, merged) ==
    /\ run' = [run EXCEPT ![d][w] = job]
    /\ disk' = [disk EXCEPT ![d] = doc]
    /\ blob' = [blob EXCEPT ![d] = ciphertext]
    /\ confirmed' = [confirmed EXCEPT ![d] = promised]
    /\ applied' = [applied EXCEPT ![d] = merged]

\* A move keeps the device's tables sound, and its outbox if its other jobs
\* are idle.
Sound(d, w, job, doc, ciphertext, promised, merged) ==
    /\ ciphertext \subseteq Key /\ promised \subseteq Key
    /\ merged \subseteq Package /\ applied[d] \subseteq merged
    /\ Document(doc, merged \cup Written(d)')
    /\ JobOK(job, merged \cup Written(d)', merged)
    /\ Outbox(disk[d], blob[d], confirmed[d], run[d][w])
          => Outbox(doc, ciphertext, promised, job)

SoundMove(d, w) ==
    \E job, doc, ciphertext, promised, merged :
        /\ Moves(d, w, job, doc, ciphertext, promised, merged)
        /\ Sound(d, w, job, doc, ciphertext, promised, merged)

LEMMA Nothing ==
  ASSUME NEW held, NEW merged
  PROVE  /\ JobOK(NoRun, held, merged) /\ NoState \in State
         /\ Document(NoState, held)
<1>1. NoRow \in Row
  BY DEF NoRow, Row
<1>2. NoState \in State
  BY <1>1 DEF NoState, State
<1>3. Document(NoState, held)
  BY <1>2 DEF Document, NoState, NoRow
<1> QED
  BY <1>2, <1>3 DEF JobOK, NoRun, Running, Step

\* What is known of the device d and its job w before a move.
Known(d, w) ==
    /\ run[d][w] \in Running /\ disk[d] \in State
    /\ blob[d] \subseteq Key /\ confirmed[d] \subseteq Key
    /\ applied[d] \subseteq Package
    /\ Document(disk[d], Held(d))
    /\ JobOK(run[d][w], Held(d), applied[d])

LEMMA KnownBefore ==
  ASSUME ExchangeInv, NEW d \in Device, NEW w \in Job
  PROVE  Known(d, w)
  BY DEF ExchangeInv, DeviceTables, DevicesHold, Known, Document, JobOK

\* More may be held later.
LEMMA HeldLater ==
  ASSUME NEW state, NEW held, NEW later, held \subseteq later
  PROVE  /\ Document(state, held) => Document(state, later)
         /\ \A job, merged : JobOK(job, held, merged)
                               => JobOK(job, later, merged)
  BY DEF Document, JobOK

\* A table in which d's entry is set to what it is.
LEMMA SameEntry ==
  ASSUME DeviceTables, NEW d \in Device
  PROVE  /\ disk = [disk EXCEPT ![d] = disk[d]]
         /\ blob = [blob EXCEPT ![d] = blob[d]]
         /\ confirmed = [confirmed EXCEPT ![d] = confirmed[d]]
         /\ applied = [applied EXCEPT ![d] = applied[d]]
  BY DEF DeviceTables

\* The steps of a sync that only move the job, and its abandonment.
LEMMA SyncMoves ==
  ASSUME ExchangeInv, NEW d \in Device, NEW w \in Job,
         Written(d) \subseteq Written(d)',
         \/ SyncBegin(d, w) \/ SyncRead(d, w) \/ SendClean(d, w)
         \/ SendDone(d, w) \/ SyncWrite(d, w) \/ Stops(d, w)
  PROVE  SoundMove(d, w)
<1> DEFINE job == run[d][w]
           held == applied[d] \cup Written(d)'
           Same(r) == Moves(d, w, r, disk[d], blob[d], confirmed[d],
                            applied[d])
<1>1. Known(d, w) /\ DeviceTables
  BY KnownBefore DEF ExchangeInv
<1>2. /\ Document(disk[d], held) /\ Document(job.mem, held)
      /\ JobOK(job, held, applied[d])
  BY <1>1, HeldLater DEF Known, Held, JobOK
<1>3. /\ job \in Running /\ job.mem \in State /\ disk[d] \in State
      /\ blob[d] \subseteq Key /\ confirmed[d] \subseteq Key
      /\ applied[d] \subseteq Package
  BY <1>1 DEF Known, JobOK, Document
<1>4. CASE SyncBegin(d, w)
  <2> DEFINE r == [job EXCEPT !.at = "read"]
  <2>1. Same(r)
    BY <1>1, <1>4, SameEntry DEF SyncBegin, Goes, Moves, DeviceTables
  <2>2. JobOK(r, held, applied[d])
    BY <1>2, <1>3 DEF JobOK, Running, Step
  <2>3. Sound(d, w, r, disk[d], blob[d], confirmed[d], applied[d])
    BY <1>2, <1>3, <2>2 DEF Sound, Outbox, Running
  <2> QED
    BY <2>1, <2>3 DEF SoundMove
<1>5. CASE SyncRead(d, w)
  <2> DEFINE r == [NoRun EXCEPT !.at = "policy", !.mem = disk[d]]
  <2>1. Same(r)
    BY <1>1, <1>5, SameEntry DEF SyncRead, Becomes, Moves
  <2>2. /\ r \in Running /\ r.at = "policy" /\ r.mem = disk[d]
        /\ r.key = {} /\ r.id = {}
    BY <1>3, Nothing DEF NoRun, JobOK, Running, Step
  <2>3. JobOK(r, held, applied[d])
    BY <1>2, <2>2 DEF JobOK
  <2>4. Sound(d, w, r, disk[d], blob[d], confirmed[d], applied[d])
    BY <1>2, <1>3, <2>2, <2>3 DEF Sound, Outbox
  <2> QED
    BY <2>1, <2>4 DEF SoundMove
<1>6. CASE SendClean(d, w)
  <2> DEFINE r == [job EXCEPT !.at = "upload", !.key = {}]
             b == blob[d] \ job.key
  <2>1. Moves(d, w, r, disk[d], b, confirmed[d], applied[d])
    BY <1>1, <1>6, SameEntry DEF SendClean, Becomes, Moves, DeviceTables
  <2>2. /\ r \in Running /\ r.at = "upload" /\ r.mem = job.mem /\ r.key = {}
        /\ b \subseteq Key /\ job.at = "clean"
    BY <1>3, <1>6 DEF Running, Step, SendClean, At
  <2>3. JobOK(r, held, applied[d])
    BY <1>2, <2>2 DEF JobOK
  <2>4. Sound(d, w, r, disk[d], b, confirmed[d], applied[d])
    BY <1>2, <1>3, <2>2, <2>3 DEF Sound, Outbox
  <2> QED
    BY <2>1, <2>4 DEF SoundMove
<1>7. CASE SendDone(d, w)
  <2> DEFINE r == [job EXCEPT !.at = "ack"]
  <2>1. Same(r)
    BY <1>1, <1>7, SameEntry DEF SendDone, Goes, Moves, DeviceTables
  <2>2. /\ r \in Running /\ r.at = "ack" /\ r.mem = job.mem
        /\ job.at = "upload"
    BY <1>3, <1>7 DEF Running, Step, SendDone, At
  <2>3. JobOK(r, held, applied[d])
    BY <1>2, <2>2 DEF JobOK
  <2>4. Sound(d, w, r, disk[d], blob[d], confirmed[d], applied[d])
    BY <1>2, <1>3, <2>2, <2>3 DEF Sound, Outbox
  <2> QED
    BY <2>1, <2>4 DEF SoundMove
<1>8. CASE SyncWrite(d, w)
  <2>1. Moves(d, w, NoRun, job.mem, blob[d], confirmed[d], applied[d])
    BY <1>1, <1>8, SameEntry DEF SyncWrite, Writes, Ends, Becomes, Moves, Mem
  <2>2. job.at = "check"
    BY <1>8 DEF SyncWrite, At
  <2>3. JobOK(NoRun, held, applied[d])
    BY Nothing
  <2>4. Sound(d, w, NoRun, job.mem, blob[d], confirmed[d], applied[d])
    BY <1>2, <1>3, <2>2, <2>3 DEF Sound, Outbox, NoRun
  <2> QED
    BY <2>1, <2>4 DEF SoundMove
<1>9. CASE Stops(d, w)
  <2>1. Same(NoRun)
    BY <1>1, <1>9, SameEntry DEF Stops, Ends, Becomes, Moves
  <2>2. JobOK(NoRun, held, applied[d])
    BY Nothing
  <2>3. Sound(d, w, NoRun, disk[d], blob[d], confirmed[d], applied[d])
    BY <1>2, <1>3, <2>2 DEF Sound, Outbox, NoRun
  <2> QED
    BY <2>1, <2>3 DEF SoundMove
<1> QED
  BY <1>4, <1>5, <1>6, <1>7, <1>8, <1>9

\* The steps of a sync that change the document in the job's memory.
LEMMA SyncPolicyMoves ==
  ASSUME ExchangeInv, NEW d \in Device, NEW w \in Job,
         Written(d) \subseteq Written(d)', SyncPolicy(d, w)
  PROVE  SoundMove(d, w)
<1> DEFINE job == run[d][w]
           held == applied[d] \cup Written(d)'
           doc == WithPolicy(job.mem, d)
<1>1. Known(d, w) /\ DeviceTables /\ RelayTypeOK
  BY KnownBefore DEF ExchangeInv, RelayInv
<1>2. /\ Document(disk[d], held) /\ Document(job.mem, held)
      /\ JobOK(job, held, applied[d])
  BY <1>1, HeldLater DEF Known, Held, JobOK
<1>3. /\ job \in Running /\ job.mem \in State /\ disk[d] \in State
      /\ blob[d] \subseteq Key /\ confirmed[d] \subseteq Key
      /\ applied[d] \subseteq Package
  BY <1>1 DEF Known, JobOK, Document
<1>4. /\ doc \in State /\ doc.rows = job.mem.rows /\ doc.acks = job.mem.acks
  <2>1. CASE Sees(Owner[d], J)
    <3>1. project[J].enabled \in BOOLEAN /\ project[J].never \in BOOLEAN
      BY <1>1, <2>1 DEF Sees, RelayTypeOK, ProjectRow
    <3>2. doc = [job.mem EXCEPT !.enabled = project[J].enabled,
                                !.never = project[J].never]
      BY <2>1 DEF WithPolicy
    <3> QED
      BY <1>3, <3>1, <3>2 DEF State
  <2>2. CASE ~Sees(Owner[d], J)
    <3>1. doc = [job.mem EXCEPT !.enabled = FALSE]
      BY <2>2 DEF WithPolicy
    <3> QED
      BY <1>3, <3>1 DEF State
  <2> QED
    BY <2>1, <2>2
<1>5. Document(doc, held) /\ job.at = "policy"
  BY <1>2, <1>4 DEF Document, SyncPolicy, At
<1>6. CASE doc.enabled /\ ~doc.never
  <2> DEFINE r == [job EXCEPT !.at = "upload", !.mem = doc]
  <2>1. Moves(d, w, r, disk[d], blob[d], confirmed[d], applied[d])
    BY <1>1, <1>6, SameEntry DEF SyncPolicy, Becomes, Moves, Mem
  <2>2. /\ r \in Running /\ r.at = "upload" /\ r.mem = doc
    BY <1>3, <1>4 DEF Running, Step
  <2> HIDE DEF doc, r
  <2>3. JobOK(r, held, applied[d])
    BY <1>5, <2>2 DEF JobOK
  <2>4. Sound(d, w, r, disk[d], blob[d], confirmed[d], applied[d])
    BY <1>2, <1>3, <1>4, <1>5, <2>2, <2>3 DEF Sound, Outbox
  <2> QED
    BY <2>1, <2>4 DEF SoundMove
<1>7. CASE ~(doc.enabled /\ ~doc.never)
  <2>1. Moves(d, w, NoRun, doc, blob[d], confirmed[d], applied[d])
    BY <1>1, <1>7, SameEntry DEF SyncPolicy, Becomes, Ends, Writes, Moves, Mem
  <2>2. JobOK(NoRun, held, applied[d])
    BY Nothing
  <2> HIDE DEF doc
  <2>3. Sound(d, w, NoRun, doc, blob[d], confirmed[d], applied[d])
    BY <1>3, <1>4, <1>5, <2>2 DEF Sound, Outbox, NoRun
  <2> QED
    BY <2>1, <2>3 DEF SoundMove
<1> QED
  BY <1>6, <1>7

LEMMA SendRowMoves ==
  ASSUME ExchangeInv, NEW d \in Device, NEW w \in Job, NEW k \in Key,
         Written(d) \subseteq Written(d)', ServerAgrees', SendRow(d, w, k)
  PROVE  SoundMove(d, w)
<1> DEFINE job == run[d][w]
           held == applied[d] \cup Written(d)'
<1>1. Known(d, w) /\ DeviceTables /\ RelayTypeOK /\ RelayInv /\ ServerAgrees
  BY KnownBefore DEF ExchangeInv, RelayInv
<1>2. /\ Document(disk[d], held) /\ Document(job.mem, held)
      /\ JobOK(job, held, applied[d])
  BY <1>1, HeldLater DEF Known, Held, JobOK
<1>3. /\ job \in Running /\ job.mem \in State /\ disk[d] \in State
      /\ blob[d] \subseteq Key /\ confirmed[d] \subseteq Key
      /\ applied[d] \subseteq Package
  BY <1>1 DEF Known, JobOK, Document
<1>4. PICK p \in Package :
        /\ Uploads(d, k, p)
        /\ LET state == WithSent(Mem(d, w), k, p)
           IN  \/ /\ Writes(d, state)
                  /\ Becomes(d, w, [run[d][w] EXCEPT !.at = "clean",
                                      !.mem = state, !.key = {k}])
               \/ Ends(d, w) /\ UNCHANGED disk
  BY DEF SendRow
<1>5. p \in Written(d)'
  <2>1. CASE \E size \in Sizes : Upload(d, J, k, p, size)
    <3>1. UploadEffect(d, J, k, p)
      BY <1>1, <2>1, ProjectChosen, UploadTables
    <3> QED
      BY <3>1 DEF UploadEffect, Written
  <2>2. CASE Reuploaded(d, J, k, p)
    <3>1. /\ <<J, d, k>> \in DOMAIN upload /\ upload[<<J, d, k>>].id = p
      BY <2>2 DEF Reuploaded, Remembered
    <3>2. p \in Written(d)
      BY <1>1, <3>1 DEF ServerAgrees
    <3> QED
      BY <3>2
  <2> QED
    BY <1>4, <2>1, <2>2 DEF Uploads
<1> DEFINE doc == WithSent(job.mem, k, p)
<1>6. /\ doc \in State /\ doc.acks = job.mem.acks \cup {p}
      /\ doc.rows[k].status = "sent" /\ doc.rows[k].id = p
      /\ \A j \in Key \ {k} : doc.rows[j] = job.mem.rows[j]
  <2> DEFINE row == [status |-> "sent", id |-> p]
             rows == [job.mem.rows EXCEPT ![k] = row]
             acks == job.mem.acks \cup {p}
  <2>1. row \in Row /\ row.status = "sent" /\ row.id = p
    BY DEF Row
  <2>2. job.mem.rows \in [Key -> Row] /\ acks \in SUBSET Package
    BY <1>3 DEF State
  <2>3. doc = [job.mem EXCEPT !.rows = rows, !.acks = acks]
    BY <1>3 DEF WithSent, State
  <2> HIDE DEF doc, row, acks
  <2>4. /\ rows \in [Key -> Row] /\ rows[k] = row
        /\ \A j \in Key \ {k} : rows[j] = job.mem.rows[j]
    BY <2>1, <2>2
  <2> HIDE DEF rows
  <2>5. doc \in State /\ doc.rows = rows /\ doc.acks = acks
    BY <1>3, <2>2, <2>3, <2>4 DEF State
  <2> QED
    BY <2>1, <2>4, <2>5 DEF acks
<1>7. /\ Document(doc, held) /\ job.at = "upload" /\ k \in blob[d]
  BY <1>2, <1>5, <1>6 DEF Document, SendRow, At
<1>8. applied' = applied /\ blob' = blob /\ confirmed' = confirmed
  BY DEF SendRow
<1>9. CASE Writes(d, doc)
           /\ Becomes(d, w, [job EXCEPT !.at = "clean", !.mem = doc,
                                        !.key = {k}])
  <2> DEFINE r == [job EXCEPT !.at = "clean", !.mem = doc, !.key = {k}]
  <2>1. Moves(d, w, r, doc, blob[d], confirmed[d], applied[d])
    BY <1>1, <1>8, <1>9, SameEntry DEF Becomes, Writes, Moves
  <2>2. r \in Running /\ r.at = "clean" /\ r.mem = doc /\ r.key = {k}
    BY <1>3, <1>6 DEF Running, Step
  <2> HIDE DEF doc, r
  <2>3. JobOK(r, held, applied[d])
    BY <1>7, <2>2 DEF JobOK
  <2>4. Sound(d, w, r, doc, blob[d], confirmed[d], applied[d])
    BY <1>3, <1>6, <1>7, <2>2, <2>3, SMTT(40) DEF Sound, Outbox
  <2> QED
    BY <2>1, <2>4 DEF SoundMove
<1>10. CASE Ends(d, w) /\ UNCHANGED disk
  <2>1. Moves(d, w, NoRun, disk[d], blob[d], confirmed[d], applied[d])
    BY <1>1, <1>8, <1>10, SameEntry DEF Ends, Becomes, Moves
  <2>2. JobOK(NoRun, held, applied[d])
    BY Nothing
  <2>3. Sound(d, w, NoRun, disk[d], blob[d], confirmed[d], applied[d])
    BY <1>2, <1>3, <2>2 DEF Sound, Outbox, NoRun
  <2> QED
    BY <2>1, <2>3 DEF SoundMove
<1> QED
  BY <1>4, <1>9, <1>10 DEF Mem

LEMMA SendAckMoves ==
  ASSUME ExchangeInv, NEW d \in Device, NEW w \in Job, NEW p \in Package,
         Written(d) \subseteq Written(d)', SendAck(d, w, p)
  PROVE  SoundMove(d, w)
<1> DEFINE job == run[d][w]
           held == applied[d] \cup Written(d)'
           doc == [job.mem EXCEPT !.acks = @ \ {p}]
<1>1. Known(d, w) /\ DeviceTables
  BY KnownBefore DEF ExchangeInv
<1>2. /\ Document(disk[d], held) /\ Document(job.mem, held)
      /\ JobOK(job, held, applied[d])
  BY <1>1, HeldLater DEF Known, Held, JobOK
<1>3. /\ job \in Running /\ job.mem \in State /\ disk[d] \in State
      /\ blob[d] \subseteq Key /\ confirmed[d] \subseteq Key
      /\ applied[d] \subseteq Package
  BY <1>1 DEF Known, JobOK, Document
<1>4. /\ doc \in State /\ doc.acks = job.mem.acks \ {p}
      /\ doc.rows = job.mem.rows
  BY <1>3 DEF State
<1>5. Document(doc, held) /\ job.at = "ack"
  BY <1>2, <1>4 DEF Document, SendAck, At
<1>6. applied' = applied /\ blob' = blob /\ confirmed' = confirmed
  BY DEF SendAck
<1>7. CASE Writes(d, doc) /\ Becomes(d, w, [job EXCEPT !.mem = doc])
  <2> DEFINE r == [job EXCEPT !.mem = doc]
  <2>1. Moves(d, w, r, doc, blob[d], confirmed[d], applied[d])
    BY <1>1, <1>6, <1>7, SameEntry DEF Becomes, Writes, Moves
  <2>2. r \in Running /\ r.at = "ack" /\ r.mem = doc
    BY <1>3, <1>4, <1>5 DEF Running, Step
  <2> HIDE DEF doc, r
  <2>3. JobOK(r, held, applied[d])
    BY <1>5, <2>2 DEF JobOK
  <2>4. Sound(d, w, r, doc, blob[d], confirmed[d], applied[d])
    BY <1>3, <1>4, <1>5, <2>2, <2>3 DEF Sound, Outbox
  <2> QED
    BY <2>1, <2>4 DEF SoundMove
<1>8. CASE Ends(d, w) /\ UNCHANGED disk
  <2>1. Moves(d, w, NoRun, disk[d], blob[d], confirmed[d], applied[d])
    BY <1>1, <1>6, <1>8, SameEntry DEF Ends, Becomes, Moves
  <2>2. JobOK(NoRun, held, applied[d])
    BY Nothing
  <2>3. Sound(d, w, NoRun, disk[d], blob[d], confirmed[d], applied[d])
    BY <1>2, <1>3, <2>2 DEF Sound, Outbox, NoRun
  <2> QED
    BY <2>1, <2>3 DEF SoundMove
<1> QED
  BY <1>7, <1>8 DEF SendAck, Mem

LEMMA InboxMoves ==
  ASSUME ExchangeInv, NEW d \in Device, NEW w \in Job,
         Written(d) \subseteq Written(d)', ReadInbox(d, w)
  PROVE  SoundMove(d, w)
<1> DEFINE job == run[d][w]
           held == applied[d] \cup Written(d)'
           remote == Listed(d, J)
           incoming == {p \in remote : pkg[p].author # d} \ job.mem.received
           doc == [job.mem EXCEPT !.incoming = incoming]
           r == [job EXCEPT !.at = "check", !.seen = remote, !.mem = doc]
<1>1. Known(d, w) /\ DeviceTables /\ RelayTypeOK
  BY KnownBefore DEF ExchangeInv, RelayInv
<1>2. /\ Document(disk[d], held) /\ Document(job.mem, held)
      /\ JobOK(job, held, applied[d])
  BY <1>1, HeldLater DEF Known, Held, JobOK
<1>3. /\ job \in Running /\ job.mem \in State /\ disk[d] \in State
      /\ blob[d] \subseteq Key /\ confirmed[d] \subseteq Key
      /\ applied[d] \subseteq Package
  BY <1>1 DEF Known, JobOK, Document
<1>4. remote \subseteq Package
  BY <1>1 DEF Listed, OfProject, RelayTypeOK
<1>5. incoming \subseteq Package
  BY <1>4
<1>6. job.at = "ack" /\ applied' = applied /\ blob' = blob
      /\ confirmed' = confirmed /\ disk' = disk
  BY DEF ReadInbox, At
<1>7. run' = [run EXCEPT ![d][w] = r]
  <2>1. [job EXCEPT !.at = "check", !.seen = remote, !.mem.incoming = incoming]
        = r
    BY <1>3 DEF Running, State
  <2> QED
    BY <2>1 DEF ReadInbox, Becomes, Mem
<1> HIDE DEF remote, incoming
<1>8. doc \in State /\ doc.rows = job.mem.rows /\ doc.acks = job.mem.acks
  BY <1>3, <1>5 DEF State
<1> HIDE DEF doc
<1>9. r \in Running /\ r.at = "check" /\ r.mem = doc
  BY <1>3, <1>4, <1>8 DEF Running, Step
<1> HIDE DEF r
<1>10. Document(doc, held)
  BY <1>2, <1>8 DEF Document
<1>11. Moves(d, w, r, disk[d], blob[d], confirmed[d], applied[d])
  BY <1>1, <1>6, <1>7, SameEntry DEF Moves
<1>12. JobOK(r, held, applied[d])
  BY <1>9, <1>10 DEF JobOK
<1>13. Sound(d, w, r, disk[d], blob[d], confirmed[d], applied[d])
  BY <1>2, <1>3, <1>6, <1>8, <1>9, <1>12 DEF Sound, Outbox
<1> QED
  BY <1>11, <1>13 DEF SoundMove

LEMMA CheckSentMoves ==
  ASSUME ExchangeInv, NEW d \in Device, NEW w \in Job, NEW k \in Key,
         Written(d) \subseteq Written(d)', CheckSent(d, w, k)
  PROVE  SoundMove(d, w)
<1> DEFINE job == run[d][w]
           held == applied[d] \cup Written(d)'
           p == job.mem.rows[k].id
<1>1. Known(d, w) /\ DeviceTables
  BY KnownBefore DEF ExchangeInv
<1>2. /\ Document(disk[d], held) /\ Document(job.mem, held)
      /\ JobOK(job, held, applied[d])
  BY <1>1, HeldLater DEF Known, Held, JobOK
<1>3. /\ job \in Running /\ job.mem \in State /\ disk[d] \in State
      /\ blob[d] \subseteq Key /\ confirmed[d] \subseteq Key
      /\ applied[d] \subseteq Package
  BY <1>1 DEF Known, JobOK, Document
<1>4. job.at = "check" /\ applied' = applied /\ blob' = blob
      /\ confirmed' = confirmed /\ disk' = disk
  BY DEF CheckSent, At
<1>5. job.mem.rows[k].status = "sent" /\ p \in Package
  BY <1>2 DEF CheckSent, Unlisted, Mem, Document
<1>6. PICK status \in {"purged", "sent"} :
        run' = [run EXCEPT ![d][w] =
                  [job EXCEPT !.seen = @ \cup {p},
                              !.mem.rows[k].status = status]]
  BY DEF CheckSent, Becomes, Mem
<1> DEFINE row == [job.mem.rows[k] EXCEPT !.status = status]
           rows == [job.mem.rows EXCEPT ![k] = row]
           doc == [job.mem EXCEPT !.rows = rows]
           seen == job.seen \cup {p}
           r == [job EXCEPT !.seen = seen, !.mem = doc]
<1>7. run' = [run EXCEPT ![d][w] = r]
  <2>1. [job EXCEPT !.seen = @ \cup {p}, !.mem.rows[k].status = status] = r
    BY <1>3 DEF Running, State
  <2> QED
    BY <1>6, <2>1
<1>8. job.mem.rows \in [Key -> Row] /\ seen \subseteq Package
  BY <1>3, <1>5 DEF State, Running
<1> HIDE DEF seen
<1>9. row \in Row /\ row.status = status /\ row.id = p
  <2>1. job.mem.rows[k] \in Row
    BY <1>8
  <2> QED
    BY <2>1 DEF Row
<1> HIDE DEF row
<1>10. /\ rows \in [Key -> Row] /\ rows[k] = row
       /\ \A j \in Key \ {k} : rows[j] = job.mem.rows[j]
  BY <1>8, <1>9
<1> HIDE DEF rows, p
<1>11. doc \in State /\ doc.rows = rows /\ doc.acks = job.mem.acks
  BY <1>3, <1>10 DEF State
<1> HIDE DEF doc
<1>12. r \in Running /\ r.at = "check" /\ r.mem = doc
  BY <1>3, <1>4, <1>8, <1>11 DEF Running
<1> HIDE DEF r
<1>13. Document(doc, held)
  BY <1>2, <1>5, <1>9, <1>10, <1>11 DEF Document
<1>14. Moves(d, w, r, disk[d], blob[d], confirmed[d], applied[d])
  BY <1>1, <1>4, <1>7, SameEntry DEF Moves
<1>15. JobOK(r, held, applied[d])
  BY <1>12, <1>13 DEF JobOK
<1>16. Outbox(disk[d], blob[d], confirmed[d], job)
         => Outbox(disk[d], blob[d], confirmed[d], r)
  BY <1>4, <1>5, <1>9, <1>10, <1>11, <1>12 DEF Outbox
<1>17. Sound(d, w, r, disk[d], blob[d], confirmed[d], applied[d])
  BY <1>2, <1>3, <1>15, <1>16 DEF Sound
<1> QED
  BY <1>14, <1>17 DEF SoundMove

\* enqueue
LEMMA QueueMoves ==
  ASSUME ExchangeInv, NEW d \in Device, NEW w \in Job,
         Written(d) \subseteq Written(d)', QueueStep(d, w)
  PROVE  SoundMove(d, w)
<1> DEFINE job == run[d][w]
           held == applied[d] \cup Written(d)'
<1>1. Known(d, w) /\ DeviceTables
  BY KnownBefore DEF ExchangeInv
<1>2. /\ Document(disk[d], held) /\ Document(job.mem, held)
      /\ JobOK(job, held, applied[d])
  BY <1>1, HeldLater DEF Known, Held, JobOK
<1>3. /\ job \in Running /\ job.mem \in State /\ disk[d] \in State
      /\ blob[d] \subseteq Key /\ confirmed[d] \subseteq Key
      /\ applied[d] \subseteq Package
  BY <1>1 DEF Known, JobOK, Document
<1>4. NoRun \in Running /\ Document(NoRun.mem, held)
  BY Nothing DEF JobOK
<1>5. ASSUME NEW k \in Key, QueueBlob(d, w, k)
      PROVE  SoundMove(d, w)
  <2> DEFINE r == [NoRun EXCEPT !.at = "queueRead", !.key = {k}]
             b == blob[d] \cup {k}
  <2>1. Moves(d, w, r, disk[d], b, confirmed[d], applied[d])
    BY <1>1, <1>5, SameEntry DEF QueueBlob, Becomes, Moves, DeviceTables
  <2>2. /\ r \in Running /\ r.at = "queueRead" /\ r.mem = NoRun.mem
        /\ r.key = {k}
    BY <1>4 DEF Running, Step
  <2> HIDE DEF r
  <2>3. JobOK(r, held, applied[d])
    BY <1>4, <2>2 DEF JobOK
  <2>4. Sound(d, w, r, disk[d], b, confirmed[d], applied[d])
    BY <1>2, <1>3, <2>2, <2>3 DEF Sound, Outbox
  <2> QED
    BY <2>1, <2>4 DEF SoundMove
<1>6. CASE QueueRead(d, w)
  <2> DEFINE r == [job EXCEPT !.at = "queueWrite", !.mem = disk[d]]
  <2>1. Moves(d, w, r, disk[d], blob[d], confirmed[d], applied[d])
    BY <1>1, <1>6, SameEntry DEF QueueRead, Becomes, Moves
  <2>2. /\ r \in Running /\ r.at = "queueWrite" /\ r.mem = disk[d]
        /\ r.key = job.key /\ job.at = "queueRead"
    BY <1>3, <1>6 DEF Running, Step, QueueRead, At
  <2> HIDE DEF r
  <2>3. JobOK(r, held, applied[d])
    BY <1>2, <2>2 DEF JobOK
  <2>4. Sound(d, w, r, disk[d], blob[d], confirmed[d], applied[d])
    BY <1>2, <1>3, <2>2, <2>3 DEF Sound, Outbox
  <2> QED
    BY <2>1, <2>4 DEF SoundMove
<1>7. CASE QueueWrite(d, w)
  <2> DEFINE k == CHOOSE key \in job.key : TRUE
             doc == [job.mem EXCEPT !.rows[k].status = "queued"]
             c == confirmed[d] \cup {k}
  <2>1. Moves(d, w, NoRun, doc, blob[d], c, applied[d])
    BY <1>1, <1>7, SameEntry
    DEF QueueWrite, Writes, Ends, Becomes, Mem, Moves, DeviceTables
  <2>2. job.at = "queueWrite"
    BY <1>7 DEF QueueWrite, At
  <2>3. k \in job.key /\ k \in Key
    BY <1>2, <1>3, <2>2 DEF JobOK, Running
  <2> HIDE DEF k
  <2> DEFINE row == [job.mem.rows[k] EXCEPT !.status = "queued"]
             rows == [job.mem.rows EXCEPT ![k] = row]
  <2>4. job.mem.rows \in [Key -> Row] /\ doc = [job.mem EXCEPT !.rows = rows]
    BY <1>3 DEF State
  <2> HIDE DEF doc
  <2>5. row \in Row /\ row.status = "queued"
    <3>1. job.mem.rows[k] \in Row
      BY <2>3, <2>4
    <3> QED
      BY <3>1 DEF Row
  <2> HIDE DEF row
  <2>6. /\ rows \in [Key -> Row] /\ rows[k] = row
        /\ \A j \in Key \ {k} : rows[j] = job.mem.rows[j]
    BY <2>3, <2>4, <2>5
  <2> HIDE DEF rows
  <2>7. doc \in State /\ doc.rows = rows /\ doc.acks = job.mem.acks
    BY <1>3, <2>4, <2>6 DEF State
  <2>8. Document(doc, held)
    BY <1>2, <2>5, <2>6, <2>7 DEF Document
  <2>9. JobOK(NoRun, held, applied[d])
    BY Nothing
  <2>10. Outbox(disk[d], blob[d], confirmed[d], job)
           => Outbox(doc, blob[d], c, NoRun)
    <3> SUFFICES ASSUME Outbox(disk[d], blob[d], confirmed[d], job)
                 PROVE  Outbox(doc, blob[d], c, NoRun)
      OBVIOUS
    <3>1. /\ job.mem.rows = disk[d].rows /\ k \in blob[d]
          /\ NoRun.at = "idle"
      BY <2>2, <2>3 DEF Outbox, NoRun
    <3>2. \A j \in Key : doc.rows[j].status = "queued" => j \in blob[d]
      BY <2>6, <2>7, <3>1 DEF Outbox
    <3>3. \A j \in c : doc.rows[j].status # "none"
      BY <1>3, <2>5, <2>6, <2>7, <3>1 DEF Outbox
    <3> QED
      BY <3>1, <3>2, <3>3 DEF Outbox
  <2>11. Sound(d, w, NoRun, doc, blob[d], c, applied[d])
    BY <1>3, <2>3, <2>8, <2>9, <2>10 DEF Sound
  <2> QED
    BY <2>1, <2>11 DEF SoundMove
<1> QED
  BY <1>5, <1>6, <1>7 DEF QueueStep

\* receive and applied
LEMMA ReceiveMoves ==
  ASSUME ExchangeInv, NEW d \in Device, NEW w \in Job,
         Written(d) \subseteq Written(d)', ReceiveStep(d, w)
  PROVE  SoundMove(d, w)
<1> DEFINE job == run[d][w]
           held == applied[d] \cup Written(d)'
<1>1. Known(d, w) /\ DeviceTables
  BY KnownBefore DEF ExchangeInv
<1>2. /\ Document(disk[d], held) /\ Document(job.mem, held)
      /\ JobOK(job, held, applied[d])
  BY <1>1, HeldLater DEF Known, Held, JobOK
<1>3. /\ job \in Running /\ job.mem \in State /\ disk[d] \in State
      /\ blob[d] \subseteq Key /\ confirmed[d] \subseteq Key
      /\ applied[d] \subseteq Package
  BY <1>1 DEF Known, JobOK, Document
<1>4. NoRun \in Running /\ Document(NoRun.mem, held)
  BY Nothing DEF JobOK
<1>5. ASSUME NEW p \in Package, Receive(d, w, p)
      PROVE  SoundMove(d, w)
  <2> DEFINE r == [NoRun EXCEPT !.at = "merge", !.id = {p}]
  <2>1. Moves(d, w, r, disk[d], blob[d], confirmed[d], applied[d])
    BY <1>1, <1>5, SameEntry DEF Receive, Becomes, Moves
  <2>2. r \in Running /\ r.at = "merge" /\ r.mem = NoRun.mem
    BY <1>4 DEF Running, Step
  <2> HIDE DEF r
  <2>3. JobOK(r, held, applied[d])
    BY <1>4, <2>2 DEF JobOK
  <2>4. Sound(d, w, r, disk[d], blob[d], confirmed[d], applied[d])
    BY <1>2, <1>3, <2>2, <2>3 DEF Sound, Outbox
  <2> QED
    BY <2>1, <2>4 DEF SoundMove
<1>6. CASE Merge(d, w)
  <2> DEFINE r == [job EXCEPT !.at = "appliedRead"]
             a == applied[d] \cup job.id
  <2>1. Moves(d, w, r, disk[d], blob[d], confirmed[d], a)
    BY <1>1, <1>6, SameEntry DEF Merge, Goes, Moves, DeviceTables
  <2>2. /\ r \in Running /\ r.at = "appliedRead" /\ r.mem = job.mem
        /\ r.id = job.id /\ job.id \subseteq Package
    BY <1>3 DEF Running, Step
  <2> HIDE DEF r
  <2>3. /\ Document(disk[d], a \cup Written(d)')
        /\ Document(job.mem, a \cup Written(d)')
    BY <1>2 DEF Document
  <2>4. JobOK(r, a \cup Written(d)', a)
    BY <2>2, <2>3 DEF JobOK
  <2>5. Sound(d, w, r, disk[d], blob[d], confirmed[d], a)
    BY <1>3, <2>2, <2>3, <2>4 DEF Sound, Outbox
  <2> QED
    BY <2>1, <2>5 DEF SoundMove
<1>7. CASE AppliedRead(d, w)
  <2> DEFINE r == [job EXCEPT !.at = "appliedWrite", !.mem = disk[d]]
  <2>1. Moves(d, w, r, disk[d], blob[d], confirmed[d], applied[d])
    BY <1>1, <1>7, SameEntry DEF AppliedRead, Becomes, Moves
  <2>2. /\ r \in Running /\ r.at = "appliedWrite" /\ r.mem = disk[d]
        /\ r.id = job.id /\ job.at = "appliedRead"
    BY <1>3, <1>7 DEF Running, Step, AppliedRead, At
  <2> HIDE DEF r
  <2>3. JobOK(r, held, applied[d])
    BY <1>2, <2>2 DEF JobOK
  <2>4. Sound(d, w, r, disk[d], blob[d], confirmed[d], applied[d])
    BY <1>2, <1>3, <2>2, <2>3 DEF Sound, Outbox
  <2> QED
    BY <2>1, <2>4 DEF SoundMove
<1>8. CASE AppliedWrite(d, w)
  <2> DEFINE r == [NoRun EXCEPT !.at = "read"]
             doc == [job.mem EXCEPT !.received = @ \cup job.id,
                                    !.acks = @ \cup job.id,
                                    !.incoming = @ \ job.id]
  <2>1. Moves(d, w, r, doc, blob[d], confirmed[d], applied[d])
    BY <1>1, <1>8, SameEntry DEF AppliedWrite, Writes, Becomes, Mem, Moves
  <2>2. /\ r \in Running /\ r.at = "read" /\ r.mem = NoRun.mem
        /\ job.at = "appliedWrite"
    BY <1>4, <1>8 DEF Running, Step, AppliedWrite, At
  <2>3. job.id \subseteq applied[d] /\ job.id \subseteq Package
    BY <1>2, <1>3, <2>2 DEF JobOK, Running
  <2>4. /\ doc \in State /\ doc.rows = job.mem.rows
        /\ doc.acks = job.mem.acks \cup job.id
    BY <1>3, <2>3 DEF State
  <2> HIDE DEF r, doc
  <2>5. Document(doc, held)
    BY <1>2, <2>3, <2>4 DEF Document
  <2>6. JobOK(r, held, applied[d])
    BY <1>4, <2>2 DEF JobOK
  <2>7. Sound(d, w, r, doc, blob[d], confirmed[d], applied[d])
    BY <1>3, <2>2, <2>4, <2>5, <2>6 DEF Sound, Outbox
  <2> QED
    BY <2>1, <2>7 DEF SoundMove
<1> QED
  BY <1>5, <1>6, <1>7, <1>8 DEF ReceiveStep

-----------------------------------------------------------------------------
\* Steps of the whole

\* What every step does: the server stays in agreement, and either one job
\* makes a sound move, or a device crashes, or the devices do nothing.
Crashes(d) ==
    /\ run' = [run EXCEPT ![d] = [w \in Job |-> NoRun]]
    /\ UNCHANGED <<disk, blob, applied, confirmed>>

LEMMA Steps ==
  ASSUME ExchangeInv, [Next]_vars
  PROVE  /\ RelayInv' /\ ServerAgrees'
         /\ \A d \in Device : Written(d) \subseteq Written(d)'
         /\ \/ \E d \in Device, w \in Job : SoundMove(d, w)
            \/ \E d \in Device : Crashes(d)
            \/ UNCHANGED deviceState
<1>1. RelayInv /\ ServerAgrees /\ DeviceTables /\ DevicesHold
  BY DEF ExchangeInv
<1>2. RelayInv'
  BY <1>1, ServerSteps, RelayInvStep
<1>3. ASSUME \A d \in Device : applied[d] \subseteq applied'[d],
             UNCHANGED relayVars
      PROVE  ServerAgrees' /\ \A d \in Device : Written(d) \subseteq Written(d)'
  BY <1>1, <1>3, ServerKeepsAuthors
<1>4. CASE UNCHANGED vars
  BY <1>2, <1>3, <1>4 DEF vars, deviceState
<1>5. CASE ServerStep
  <2>1. PolicyStep \/ NextDay \/ PurgeStep
    BY <1>5 DEF ServerStep
  <2>2. UNCHANGED deviceState
    BY <1>5 DEF ServerStep
  <2>3. \A d \in Device : applied[d] \subseteq applied'[d]
    BY <2>2 DEF deviceState
  <2> QED
    BY <1>1, <1>2, <2>1, <2>2, <2>3, ServerKeepsAuthors
<1>6. ASSUME NEW d \in Device, Crash(d)
      PROVE  ServerAgrees' /\ (\A e \in Device : Written(e) \subseteq Written(e)')
             /\ Crashes(d)
  BY <1>3, <1>6 DEF Crash, Crashes
<1>7. ASSUME NEW d \in Device, NEW w \in Job, NEW k \in Key, SendRow(d, w, k)
      PROVE  ServerAgrees' /\ (\A e \in Device : Written(e) \subseteq Written(e)')
             /\ SoundMove(d, w)
  <2>1. \A e \in Device : applied[e] \subseteq applied'[e]
    BY <1>7 DEF SendRow
  <2>2. PICK p \in Package : Uploads(d, k, p)
    BY <1>7 DEF SendRow
  <2>3. ServerAgrees' /\ \A e \in Device : Written(e) \subseteq Written(e)'
    BY <1>1, <2>1, <2>2, ServerKeepsAuthors DEF Uploads
  <2> QED
    BY <1>7, <2>3, SendRowMoves
<1>8. ASSUME NEW d \in Device, NEW w \in Job, NEW p \in Package,
             SendAck(d, w, p)
      PROVE  ServerAgrees' /\ (\A e \in Device : Written(e) \subseteq Written(e)')
             /\ SoundMove(d, w)
  <2>1. \A e \in Device : applied[e] \subseteq applied'[e]
    BY <1>8 DEF SendAck
  <2>2. Acknowledge(d, {p}) /\ p \in Mem(d, w).acks
    BY <1>8 DEF SendAck
  <2>3. p \in Held(d)
    BY <1>1, <2>2 DEF DevicesHold, JobOK, Document, Mem
  <2>4. ServerAgrees' /\ \A e \in Device : Written(e) \subseteq Written(e)'
    BY <1>1, <2>1, <2>2, <2>3, ServerKeepsAuthors
  <2> QED
    BY <1>8, <2>4, SendAckMoves
<1>9. ASSUME NEW d \in Device, NEW w \in Job,
             \/ SyncBegin(d, w) \/ SyncRead(d, w) \/ SyncPolicy(d, w)
             \/ \E k \in Key : CheckSent(d, w, k)
             \/ SendClean(d, w) \/ SendDone(d, w)
             \/ ReadInbox(d, w) \/ SyncWrite(d, w)
             \/ QueueStep(d, w) \/ ReceiveStep(d, w) \/ Stops(d, w)
      PROVE  ServerAgrees' /\ (\A e \in Device : Written(e) \subseteq Written(e)')
             /\ SoundMove(d, w)
  <2>1. UNCHANGED relayVars
    BY <1>9 DEF SyncBegin, SyncRead, SyncPolicy, CheckSent, SendClean,
      SendDone, ReadInbox, SyncWrite, QueueStep, ReceiveStep, Stops,
      QueueBlob, QueueRead, QueueWrite, Receive, Merge, AppliedRead,
      AppliedWrite
  <2>2. applied' = applied \/ applied' = [applied EXCEPT ![d] =
                                            @ \cup run[d][w].id]
    BY <1>9 DEF SyncBegin, SyncRead, SyncPolicy, CheckSent, SendClean,
      SendDone, ReadInbox, SyncWrite, QueueStep, ReceiveStep, Stops,
      QueueBlob, QueueRead, QueueWrite, Receive, Merge, AppliedRead,
      AppliedWrite
  <2>3. \A e \in Device : applied[e] \subseteq applied'[e]
    BY <1>1, <2>2 DEF DeviceTables
  <2>4. ServerAgrees' /\ \A e \in Device : Written(e) \subseteq Written(e)'
    BY <1>3, <2>1, <2>3
  <2> QED
    BY <1>9, <2>4, SyncMoves, SyncPolicyMoves, InboxMoves, CheckSentMoves,
       QueueMoves, ReceiveMoves
<1> QED
  BY <1>2, <1>4, <1>5, <1>6, <1>7, <1>8, <1>9 DEF Next, SyncStep

LEMMA TablesAfter ==
  ASSUME ExchangeInv, NEW d \in Device, NEW w \in Job, NEW job, NEW doc,
         NEW ciphertext, NEW promised, NEW merged,
         Moves(d, w, job, doc, ciphertext, promised, merged)
  PROVE  /\ disk'[d] = doc /\ blob'[d] = ciphertext /\ run'[d][w] = job
         /\ confirmed'[d] = promised /\ applied'[d] = merged
         /\ \A v \in Job \ {w} : run'[d][v] = run[d][v]
         /\ \A e \in Device \ {d} :
               /\ disk'[e] = disk[e] /\ blob'[e] = blob[e]
               /\ run'[e] = run[e] /\ confirmed'[e] = confirmed[e]
               /\ applied'[e] = applied[e]
  BY DEF ExchangeInv, DeviceTables, Moves

LEMMA MoveKeepsDevices ==
  ASSUME ExchangeInv, NEW d \in Device, NEW w \in Job, SoundMove(d, w),
         \A e \in Device : Written(e) \subseteq Written(e)'
  PROVE  DeviceTables' /\ DevicesHold'
<1>1. DeviceTables /\ DevicesHold
  BY DEF ExchangeInv
<1>2. PICK job, doc, ciphertext, promised, merged :
        /\ Moves(d, w, job, doc, ciphertext, promised, merged)
        /\ Sound(d, w, job, doc, ciphertext, promised, merged)
  BY DEF SoundMove
<1>3. /\ ciphertext \subseteq Key /\ promised \subseteq Key
      /\ merged \subseteq Package /\ applied[d] \subseteq merged
      /\ Document(doc, merged \cup Written(d)')
      /\ JobOK(job, merged \cup Written(d)', merged)
      /\ doc \in State /\ job \in Running
  BY <1>2 DEF Sound, Document, JobOK
<1>4. DeviceTables'
  BY <1>1, <1>2, <1>3 DEF DeviceTables, Moves
<1>5. /\ disk'[d] = doc /\ run'[d][w] = job /\ applied'[d] = merged
      /\ \A v \in Job \ {w} : run'[d][v] = run[d][v]
      /\ \A e \in Device \ {d} : /\ disk'[e] = disk[e] /\ run'[e] = run[e]
                                 /\ applied'[e] = applied[e]
  BY <1>2, TablesAfter
<1>6. ASSUME NEW e \in Device
      PROVE  /\ Document(disk'[e], Held(e)')
             /\ \A v \in Job : JobOK(run'[e][v], Held(e)', applied'[e])
  <2>1. applied[e] \subseteq applied'[e]
    BY <1>3, <1>5
  <2>2. Held(e) \subseteq Held(e)'
    BY <2>1 DEF Held
  <2>3. ASSUME NEW job0, JobOK(job0, Held(e), applied[e])
        PROVE  JobOK(job0, Held(e)', applied'[e])
    BY <2>1, <2>2, <2>3 DEF JobOK, Document
  <2>4. CASE e = d
    <3>1. Held(e)' = merged \cup Written(d)'
      BY <1>5, <2>4 DEF Held
    <3>2. ASSUME NEW v \in Job \ {w}
          PROVE  JobOK(run'[d][v], Held(e)', applied'[e])
      BY <1>1, <1>5, <2>3, <2>4 DEF DevicesHold
    <3> QED
      BY <1>3, <1>5, <2>4, <3>1, <3>2
  <2>5. CASE e # d
    <3>1. /\ Document(disk[e], Held(e))
          /\ \A v \in Job : JobOK(run[e][v], Held(e), applied[e])
      BY <1>1 DEF DevicesHold
    <3>2. disk'[e] = disk[e] /\ run'[e] = run[e]
      BY <1>5, <2>5
    <3> QED
      BY <2>2, <2>3, <3>1, <3>2 DEF Document
  <2> QED
    BY <2>4, <2>5
<1> QED
  BY <1>4, <1>6 DEF DevicesHold

LEMMA ExchangeInvStep ==
  ASSUME ExchangeInv, [Next]_vars
  PROVE  ExchangeInv'
<1>1. RelayInv /\ ServerAgrees /\ DeviceTables /\ DevicesHold
  BY DEF ExchangeInv
<1>2. /\ RelayInv' /\ ServerAgrees'
      /\ \A d \in Device : Written(d) \subseteq Written(d)'
      /\ \/ \E d \in Device, w \in Job : SoundMove(d, w)
         \/ \E d \in Device : Crashes(d)
         \/ UNCHANGED deviceState
  BY Steps
<1>3. CASE \E d \in Device, w \in Job : SoundMove(d, w)
  BY <1>2, <1>3, MoveKeepsDevices DEF ExchangeInv
<1>4. ASSUME UNCHANGED <<disk, blob, applied, confirmed>>,
             run' \in [Device -> [Job -> Running]],
             \A d \in Device, w \in Job : run'[d][w] \in {run[d][w], NoRun}
      PROVE  ExchangeInv'
  <2>1. DeviceTables'
    BY <1>1, <1>4 DEF DeviceTables
  <2>2. ASSUME NEW d \in Device
        PROVE  /\ Document(disk'[d], Held(d)')
               /\ \A w \in Job : JobOK(run'[d][w], Held(d)', applied'[d])
    <3>1. Held(d) \subseteq Held(d)' /\ applied'[d] = applied[d]
      BY <1>2, <1>4 DEF Held
    <3>2. Document(disk'[d], Held(d)')
      BY <1>1, <1>4, <3>1 DEF DevicesHold, Document
    <3>3. ASSUME NEW w \in Job
          PROVE  JobOK(run'[d][w], Held(d)', applied'[d])
      <4>1. JobOK(run[d][w], Held(d)', applied[d])
        BY <1>1, <3>1, HeldLater DEF DevicesHold
      <4>2. JobOK(NoRun, Held(d)', applied[d])
        BY Nothing
      <4> QED
        BY <1>4, <3>1, <4>1, <4>2
    <3> QED
      BY <3>2, <3>3
  <2> QED
    BY <1>2, <2>1, <2>2 DEF ExchangeInv, DevicesHold
<1>5. CASE \E d \in Device : Crashes(d)
  <2>1. PICK d \in Device : Crashes(d)
    BY <1>5
  <2>2. NoRun \in Running
    BY Nothing DEF JobOK
  <2>3. /\ run' \in [Device -> [Job -> Running]]
        /\ \A e \in Device, w \in Job : run'[e][w] \in {run[e][w], NoRun}
    BY <1>1, <2>1, <2>2 DEF Crashes, DeviceTables
  <2> QED
    BY <1>4, <2>1, <2>3 DEF Crashes
<1>6. CASE UNCHANGED deviceState
  BY <1>1, <1>4, <1>6 DEF deviceState, DeviceTables
<1> QED
  BY <1>2, <1>3, <1>5, <1>6

LEMMA ExchangeInvInit ==
  ASSUME RelayInit, DeviceInit
  PROVE  ExchangeInv
<1>1. RelayInv
  BY RelayInvInit
<1>2. DeviceTables
  BY Nothing DEF DeviceInit, DeviceTables, JobOK
<1>3. ServerAgrees
  BY DEF RelayInit, ServerAgrees
<1>4. DevicesHold
  BY Nothing DEF DeviceInit, DevicesHold
<1> QED
  BY <1>1, <1>2, <1>3, <1>4 DEF ExchangeInv

LEMMA ExchangeInvariant == Spec => []ExchangeInv
<1>1. RelayInit /\ DeviceInit => ExchangeInv
  BY ExchangeInvInit
<1>2. ExchangeInv /\ [Next]_vars => ExchangeInv'
  BY ExchangeInvStep
<1> QED
  BY <1>1, <1>2, PTL DEF Spec

\* The server's tables, the devices' documents and their jobs keep their
\* types, whatever overlaps.
THEOREM ExchangeTypes == Spec => []TypeOK
<1>1. ExchangeInv => TypeOK
  BY DEF ExchangeInv, RelayInv, DeviceTables, TypeOK
<1> QED
  BY <1>1, ExchangeInvariant, PTL

\* End to end: a package leaves the relay before its expiry only when every
\* active member device merged it or wrote it, for any number of devices, of
\* packages and of jobs that overlap, and whatever answers are lost.
THEOREM EarlyOnlyWhenApplied == Spec => PurgedEarlyOnlyWhenApplied
<1> DEFINE Early ==
      \A p \in DOMAIN pkg \ DOMAIN pkg' :
          pkg[p].expires <= now
          \/ \A d \in Audience(pkg[p].project) :
                d = pkg[p].author \/ p \in applied[d]
<1>1. ExchangeInv /\ [Next]_vars => [Early]_vars
  <2> SUFFICES ASSUME ExchangeInv, Next PROVE Early
    OBVIOUS
  <2>1. /\ RelayInv /\ ServerAgrees /\ DevicesHold /\ RelayTypeOK
        /\ IssuedFinite /\ DOMAIN pkg \subseteq DOMAIN issued
    BY DEF ExchangeInv, RelayInv, RelayTypeOK
  <2>2. CASE UNCHANGED relayVars
    BY <2>2 DEF relayVars, packageVars
  <2>3. CASE ServerStep
    <3>1. CASE PurgeBatch
      BY <2>1, <3>1, PurgeBatchTables
    <3>2. CASE PolicyStep \/ NextDay \/ PurgeStart \/ PurgeFails
      BY <2>1, <3>2, QuietSteps
    <3> QED
      BY <2>3, <3>1, <3>2 DEF ServerStep, PurgeStep
  <2>4. ASSUME NEW d \in Device, NEW k \in Key, NEW p \in Package,
               NEW size \in Sizes, Upload(d, J, k, p, size)
        PROVE  Early
    <3>1. UploadEffect(d, J, k, p)
      BY <2>1, <2>4, ProjectChosen, UploadTables
    <3> QED
      BY <3>1 DEF UploadEffect
  <2>5. ASSUME NEW d \in Device, NEW w \in Job, NEW p \in Package,
               SendAck(d, w, p)
        PROVE  Early
    <3>1. /\ Acknowledge(d, {p}) /\ p \in Held(d)
      BY <2>1, <2>5 DEF SendAck, DevicesHold, JobOK, Document, Mem
    <3>2. AckEffect(d, New(d, {p}))
      <4>1. {p} \in SUBSET Package
        OBVIOUS
      <4> QED
        BY <2>1, <3>1, <4>1, AcknowledgeTables
    <3>3. ASSUME NEW q \in DOMAIN pkg \ DOMAIN pkg',
                 NEW e \in Audience(pkg[q].project)
          PROVE  e = pkg[q].author \/ q \in applied[e]
      <4>1. q = p /\ e \in acked[q] \cup {d}
        BY <3>2 DEF AckEffect, New
      <4>2. q \in Held(e)
        BY <2>1, <3>1, <4>1 DEF ServerAgrees
      <4>3. issued[q].author = pkg[q].author
        BY <2>1 DEF ServerAgrees
      <4> QED
        BY <4>2, <4>3 DEF Held, Written
    <3> QED
      BY <3>3
  <2>6. CASE \E d \in Device : Crash(d)
    BY <2>2, <2>6 DEF Crash
  <2>7. ASSUME NEW d \in Device, NEW w \in Job,
               SyncStep(d, w) \/ QueueStep(d, w) \/ ReceiveStep(d, w)
               \/ Stops(d, w)
        PROVE  Early
    <3>1. CASE \E k \in Key : SendRow(d, w, k)
      BY <2>2, <2>4, <3>1 DEF SendRow, Uploads
    <3>2. CASE \E p \in Package : SendAck(d, w, p)
      BY <2>5, <3>2
    <3>3. CASE \/ SyncBegin(d, w) \/ SyncRead(d, w) \/ SyncPolicy(d, w)
               \/ \E k \in Key : CheckSent(d, w, k)
               \/ SendClean(d, w) \/ SendDone(d, w)
               \/ ReadInbox(d, w) \/ SyncWrite(d, w)
               \/ QueueStep(d, w) \/ ReceiveStep(d, w) \/ Stops(d, w)
      <4>1. UNCHANGED relayVars
        BY <3>3 DEF SyncBegin, SyncRead, SyncPolicy, CheckSent, SendClean,
          SendDone, ReadInbox, SyncWrite, QueueStep, ReceiveStep, Stops,
          QueueBlob, QueueRead, QueueWrite, Receive, Merge, AppliedRead,
          AppliedWrite
      <4> QED
        BY <2>2, <4>1
    <3> QED
      BY <2>7, <3>1, <3>2, <3>3 DEF SyncStep
  <2> QED
    BY <2>3, <2>6, <2>7 DEF Next
<1> QED
  BY <1>1, ExchangeInvariant, PTL DEF Spec, PurgedEarlyOnlyWhenApplied

-----------------------------------------------------------------------------
\* The outbox of devices whose jobs do not overlap

OneJob == \E w \in Job : Job = {w}

LEMMA OutboxStep ==
  ASSUME OneJob, ExchangeInv, OutboxInv, [Next]_vars
  PROVE  OutboxInv'
<1>1. /\ DeviceTables
      /\ \/ \E d \in Device, w \in Job : SoundMove(d, w)
         \/ \E d \in Device : Crashes(d)
         \/ UNCHANGED deviceState
  BY Steps DEF ExchangeInv
<1>2. ASSUME NEW d \in Device, NEW w \in Job, SoundMove(d, w)
      PROVE  OutboxInv'
  <2>1. PICK job, doc, ciphertext, promised, merged :
          /\ Moves(d, w, job, doc, ciphertext, promised, merged)
          /\ Sound(d, w, job, doc, ciphertext, promised, merged)
    BY <1>2 DEF SoundMove
  <2>2. Outbox(doc, ciphertext, promised, job)
    BY <2>1 DEF Sound, OutboxInv
  <2>3. /\ disk'[d] = doc /\ blob'[d] = ciphertext /\ run'[d][w] = job
        /\ confirmed'[d] = promised
        /\ \A e \in Device \ {d} :
               /\ disk'[e] = disk[e] /\ blob'[e] = blob[e]
               /\ run'[e] = run[e] /\ confirmed'[e] = confirmed[e]
    BY <2>1, TablesAfter
  <2>4. Job = {w}
    BY DEF OneJob
  <2>5. ASSUME NEW e \in Device, NEW v \in Job
        PROVE  Outbox(disk'[e], blob'[e], confirmed'[e], run'[e][v])
    <3>1. CASE e = d
      BY <2>2, <2>3, <2>4, <3>1
    <3>2. CASE e # d
      BY <2>3, <3>2 DEF OutboxInv
    <3> QED
      BY <3>1, <3>2
  <2> QED
    BY <2>5 DEF OutboxInv
<1>3. ASSUME UNCHANGED <<disk, blob, confirmed>>,
             \A d \in Device, w \in Job : run'[d][w] \in {run[d][w], NoRun}
      PROVE  OutboxInv'
  <2>1. ASSUME NEW d \in Device, NEW w \in Job
        PROVE  Outbox(disk'[d], blob'[d], confirmed'[d], run'[d][w])
    <3>1. Outbox(disk[d], blob[d], confirmed[d], run[d][w])
      BY DEF OutboxInv
    <3>2. Outbox(disk[d], blob[d], confirmed[d], NoRun)
      BY <3>1 DEF Outbox, NoRun
    <3> QED
      BY <1>3, <3>1, <3>2
  <2> QED
    BY <2>1 DEF OutboxInv
<1>4. CASE \E d \in Device : Crashes(d)
  <2>1. PICK d \in Device : Crashes(d)
    BY <1>4
  <2>2. \A e \in Device, w \in Job : run'[e][w] \in {run[e][w], NoRun}
    BY <1>1, <2>1 DEF Crashes, DeviceTables
  <2> QED
    BY <1>3, <2>1, <2>2 DEF Crashes
<1>5. CASE UNCHANGED deviceState
  BY <1>3, <1>5 DEF deviceState
<1> QED
  BY <1>1, <1>2, <1>4, <1>5

\* Where the jobs of a device do not overlap, a package whose queueing was
\* confirmed stays in the outbox, and its ciphertext until the server has it
\* (enqueue, sync), for any number of devices and packages and through every
\* crash and lost answer.
THEOREM QueuedKept ==
  ASSUME OneJob
  PROVE  Spec => []QueuedIsKept
<1>1. RelayInit /\ DeviceInit => OutboxInv
  <2> SUFFICES ASSUME DeviceInit, NEW d \in Device, NEW w \in Job
               PROVE  Outbox(disk[d], blob[d], confirmed[d], run[d][w])
    BY DEF OutboxInv
  <2>1. /\ disk[d] = NoState /\ blob[d] = {} /\ confirmed[d] = {}
        /\ run[d][w] = NoRun
    BY DEF DeviceInit
  <2>2. NoRun.at = "idle" /\ \A k \in Key : NoState.rows[k].status = "none"
    BY DEF NoRun, NoState, NoRow
  <2> QED
    BY <2>1, <2>2 DEF Outbox
<1>2. ExchangeInv /\ OutboxInv /\ [Next]_vars => OutboxInv'
  BY OutboxStep
<1>3. ExchangeInv /\ OutboxInv => QueuedIsKept
  <2> SUFFICES ASSUME ExchangeInv, OutboxInv, NEW d \in Device,
                      NEW k \in confirmed[d]
               PROVE  /\ disk[d].rows[k].status # "none"
                      /\ disk[d].rows[k].status = "queued" => k \in blob[d]
    BY DEF QueuedIsKept
  <2>1. PICK w \in Job : Job = {w}
    BY DEF OneJob
  <2>2. Outbox(disk[d], blob[d], confirmed[d], run[d][w]) /\ k \in Key
    BY DEF OutboxInv, ExchangeInv, DeviceTables
  <2> QED
    BY <2>2 DEF Outbox
<1> QED
  BY <1>1, <1>2, <1>3, ExchangeInvariant, PTL DEF Spec
=============================================================================
