----------------------------- MODULE RelayServer -----------------------------
(***************************************************************************)
(* The relay of the backend: packages in flight between the devices of a   *)
(* project, their acknowledgement, the purge job, and the project policy   *)
(* (enabled, never relay, retention) that an administrator edits and a     *)
(* deployment reconfigures.                                                *)
(*                                                                         *)
(* A withTransaction body holds one advisory lock, so it is one action.  A *)
(* project edit or creation reads before its transaction: it is two.  A    *)
(* request authenticated before its device was revoked may still commit,   *)
(* so a request asks only that its device was enrolled.                    *)
(*                                                                         *)
(* A retried acknowledgement is answered from its idempotency row, or      *)
(* finds the package gone or acknowledged: it changes nothing either way.  *)
(***************************************************************************)
EXTENDS Integers, FiniteSets, Functions

CONSTANTS
    User, Device, Project, Package,
    Owner,          \* the account each device is enrolled to
    Manager,        \* accounts whose role may relay and manage projects
    Admin,          \* those of them who see every project
    Key,            \* Idempotency-Key values of uploads
    Call,           \* project edits and creations in flight
    Sizes,          \* byte sizes of the packages uploaded
    PackageMax,     \* config.packageMaxBytes
    ProjectCeiling, OrgCeiling,    \* config storage ceilings, in bytes
    HardMax,        \* RETENTION_HARD_MAX_DAYS, and the life of an upload key
    Windows,        \* retention windows that are configured or asked for
    BatchSize,      \* config.purgeBatchSize
    LastDay         \* bound: the clock stops here

ASSUME RelayConstants ==
    /\ Owner \in [Device -> User]
    /\ Admin \subseteq Manager /\ Manager \subseteq User
    /\ Sizes \subseteq Nat \ {0}
    /\ {PackageMax, ProjectCeiling, OrgCeiling, LastDay} \subseteq Nat
    /\ HardMax \in Nat \ {0} /\ BatchSize \in Nat \ {0}
    /\ Windows \subseteq 1..HardMax /\ Windows # {}

VARIABLES
    now,        \* the day
    orgDays,    \* organisations.retention_days
    project,    \* projects, by identifier
    member,     \* project_members
    enrolled,   \* devices
    revoked,    \* devices.revoked
    pkg,        \* relay_packages with their ciphertext
    acked,      \* relay_acknowledgements of the stored packages
    vector,     \* relay_vectors
    upload,     \* idempotency_keys of uploads
    issued,     \* every package ever stored and who acknowledged it (history)
    edit,       \* rows read by project edits and creations in flight
    purge       \* the purge run's now, or -1 between runs

policyVars == <<orgDays, project, member, edit>>
deviceVars == <<enrolled, revoked>>
packageVars == <<pkg, acked, vector, upload, issued>>
relayVars == <<now, policyVars, deviceVars, packageVars, purge>>

ProjectRow == [enabled : BOOLEAN, never : BOOLEAN, days : 1..HardMax]
RelayPackage == [project : Project, author : Device, key : Key, size : Sizes,
                 created : 0..LastDay, expires : 0..LastDay + HardMax]
UploadKey == Project \X Device \X Key
UploadResult == [id : Package, expires : 0..LastDay + HardMax]
\* never of a patch: "keep" when the patch does not name it.
Patch == [enabled : BOOLEAN, never : {"keep", "set", "clear"}, days : Windows]
NewProject == [enabled |-> FALSE, never |-> FALSE, days |-> 1]
NoEdit == [op |-> "none"]
Edit == [op : {"create"}, project : Project, user : User, next : ProjectRow]
        \cup [op : {"patch"}, project : Project, next : ProjectRow]
        \cup {NoEdit}
Issue == [project : Project, author : Device, seen : SUBSET Device]

RelayTypeOK ==
    /\ now \in 0..LastDay
    /\ orgDays \in 1..HardMax
    /\ DOMAIN project \subseteq Project
    /\ project \in [DOMAIN project -> ProjectRow]
    /\ member \subseteq (DOMAIN project) \X User
    /\ enrolled \subseteq Device /\ revoked \subseteq enrolled
    /\ DOMAIN pkg \subseteq DOMAIN issued /\ DOMAIN issued \subseteq Package
    /\ issued \in [DOMAIN issued -> Issue]
    /\ pkg \in [DOMAIN pkg -> RelayPackage]
    /\ acked \in [DOMAIN pkg -> SUBSET enrolled]
    /\ vector \in [Project \X Device -> Nat]
    /\ DOMAIN upload \subseteq UploadKey
    /\ upload \in [DOMAIN upload -> UploadResult]
    /\ edit \in [Call -> Edit]
    /\ purge \in -1..now

RelayInit ==
    /\ now = 0
    /\ orgDays \in Windows
    /\ project = [j \in {} |-> NewProject]
    /\ member = {}
    /\ enrolled = {} /\ revoked = {}
    /\ pkg = [p \in {} |-> NewProject]
    /\ acked = [p \in {} |-> {}]
    /\ vector = [x \in Project \X Device |-> 0]
    /\ upload = [k \in {} |-> NewProject]
    /\ issued = [p \in {} |-> NewProject]
    /\ edit = [c \in Call |-> NoEdit]
    /\ purge = -1

-----------------------------------------------------------------------------
\* Projects, members and devices

Extended(f, x, value) ==
    [y \in DOMAIN f \cup {x} |-> IF y = x THEN value ELSE f[y]]

\* visibleProject
Sees(u, j) == j \in DOMAIN project /\ (<<j, u>> \in member \/ u \in Admin)

\* createProject up to its transaction: the organisation's window is read.
CreateBegin(c, u, j) ==
    /\ edit[c] = NoEdit
    /\ u \in Manager
    /\ j \notin DOMAIN project
    /\ edit' = [edit EXCEPT ![c] = [op |-> "create", project |-> j, user |-> u,
                  next |-> [NewProject EXCEPT !.days = orgDays]]]
    /\ UNCHANGED <<now, orgDays, project, member, deviceVars,
                   packageVars, purge>>

\* A project created meanwhile refuses the insert.
CreateCommit(c) ==
    /\ edit[c].op = "create"
    /\ LET j == edit[c].project
       IN  IF j \in DOMAIN project
           THEN UNCHANGED <<project, member>>
           ELSE /\ project' = Extended(project, j, edit[c].next)
                /\ member' = member \cup {<<j, edit[c].user>>}
    /\ edit' = [edit EXCEPT ![c] = NoEdit]
    /\ UNCHANGED <<now, orgDays, deviceVars, packageVars, purge>>

\* The row patchProject will save.  A clamped window may not exceed the
\* organisation's, nor the hard maximum every window is under.
Patched(row, patch) ==
    [enabled |-> patch.enabled,
     never |-> IF patch.never = "keep" THEN row.never ELSE patch.never = "set",
     days |-> patch.days]

\* patchProject up to its transaction: the whole row and the organisation's
\* window are read.  A patch that does not name the window keeps the row's.
PatchBegin(c, u, j, patch) ==
    /\ edit[c] = NoEdit
    /\ u \in Manager
    /\ Sees(u, j)
    /\ patch.days <= orgDays \/ patch.days = project[j].days
    /\ edit' = [edit EXCEPT ![c] = [op |-> "patch", project |-> j,
                  next |-> Patched(project[j], patch)]]
    /\ UNCHANGED <<now, orgDays, project, member, deviceVars,
                   packageVars, purge>>

PatchCommit(c) ==
    /\ edit[c].op = "patch"
    /\ project' = [project EXCEPT ![edit[c].project] = edit[c].next]
    /\ edit' = [edit EXCEPT ![c] = NoEdit]
    /\ UNCHANGED <<now, orgDays, member, deviceVars, packageVars, purge>>

AddMember(u, j) ==
    /\ \E m \in Manager : Sees(m, j)
    /\ <<j, u>> \notin member
    /\ member' = member \cup {<<j, u>>}
    /\ UNCHANGED <<now, orgDays, project, edit, deviceVars,
                   packageVars, purge>>

RemoveMember(u, j) ==
    /\ \E m \in Manager : Sees(m, j)
    /\ <<j, u>> \in member
    /\ member' = member \ {<<j, u>>}
    /\ UNCHANGED <<now, orgDays, project, edit, deviceVars,
                   packageVars, purge>>

\* A device is enrolled by its owner's sign in, and revoked once and for all.
Enrol(d) ==
    /\ d \notin enrolled
    /\ enrolled' = enrolled \cup {d}
    /\ UNCHANGED <<now, policyVars, revoked, packageVars, purge>>

Revoke(d) ==
    /\ d \in enrolled \ revoked
    /\ revoked' = revoked \cup {d}
    /\ UNCHANGED <<now, policyVars, enrolled, packageVars, purge>>

Earlier(a, b) == IF a < b THEN a ELSE b

\* auditConfiguration at boot: a changed relay policy applies its window to
\* the organisation, the projects and the packages, never extending one.
Configure(days) ==
    /\ orgDays' = days
    /\ project' = [j \in DOMAIN project |->
                     [project[j] EXCEPT !.days = Earlier(@, days)]]
    /\ pkg' = [p \in DOMAIN pkg |->
                 [pkg[p] EXCEPT !.expires = Earlier(@, pkg[p].created + days)]]
    /\ UNCHANGED <<now, member, edit, deviceVars, acked, vector,
                   upload, issued, purge>>

-----------------------------------------------------------------------------
\* Packages

\* relayProject
Relays(d, j) ==
    /\ d \in enrolled
    /\ Owner[d] \in Manager
    /\ Sees(Owner[d], j)
    /\ project[j].enabled /\ ~project[j].never

\* devices({projectId, activeOnly}): the devices a package waits for.
Audience(j) == {d \in enrolled \ revoked : <<j, Owner[d]>> \in member}

Bytes(set) == SumFunction([p \in set |-> pkg[p].size])

OfProject(j) == {p \in DOMAIN pkg : pkg[p].project = j}

\* Mutant: packages that have expired and wait for the purge do not count.
FitsUnexpired(j, size) ==
    LET counted == {p \in DOMAIN pkg : pkg[p].expires > now}
    IN  /\ Bytes(OfProject(j) \cap counted) + size <= ProjectCeiling
        /\ Bytes(counted) + size <= OrgCeiling

\* withinCeiling, for the project and the organisation.
Fits(j, size) ==
    /\ Bytes(OfProject(j)) + size <= ProjectCeiling
    /\ Bytes(DOMAIN pkg) + size <= OrgCeiling

UploadKeyOf(p) == <<pkg[p].project, pkg[p].author, pkg[p].key>>

Bumped(j, d, by) == [vector EXCEPT ![<<j, d>>] = @ + by]

\* Mutant: an upload key lives a day.
KeyDay == 1

\* saveIdempotency: a key outlives any package, the hard maximum included.
KeyLife == HardMax

\* idempotency(key): the row while it has not expired.
Remembered(k) == k \in DOMAIN upload /\ upload[k].expires > now

\* uploadPackage of something new.
Upload(d, j, key, p, size) ==
    LET k == <<j, d, key>>
    IN  /\ Relays(d, j)
        /\ ~Remembered(k)
        /\ size <= PackageMax
        /\ Fits(j, size)
        /\ p \in Package \ DOMAIN issued
        /\ pkg' = Extended(pkg, p, [project |-> j, author |-> d, key |-> key,
                    size |-> size, created |-> now,
                    expires |-> now + project[j].days])
        /\ acked' = Extended(acked, p, {})
        /\ vector' = Bumped(j, d, 1)
        /\ upload' = Extended(upload, k, [id |-> p, expires |-> now + KeyLife])
        /\ issued' = Extended(issued, p, [project |-> j, author |-> d,
                                          seen |-> {}])
        /\ UNCHANGED <<now, policyVars, deviceVars, purge>>

\* uploadPackage of a key that is remembered answers with its package.
Reuploaded(d, j, key, p) ==
    /\ Relays(d, j)
    /\ Remembered(<<j, d, key>>)
    /\ upload[<<j, d, key>>].id = p

\* Mutant: one member device's acknowledgement is enough.
DoneBySome(p, acks) == Audience(pkg[p].project) \cap acks # {}

\* Every active member device has acknowledged.
Done(p, acks) == Audience(pkg[p].project) \subseteq acks

\* Mutant: a package the device acknowledged before counts again.
NewAgain(d, ids) == ids \cap DOMAIN pkg

\* The packages an acknowledgement is new for.
New(d, ids) == {p \in ids \cap DOMAIN pkg : d \notin acked[p]}

Kept(f, gone) == [p \in DOMAIN f \ gone |-> f[p]]

\* acknowledge: one transaction over the packages named, refused as a whole
\* if one of their projects does not relay.  One that is gone, or that the
\* device acknowledged before, is skipped.
Acknowledge(d, ids) ==
    LET new == New(d, ids)
        acks == [p \in DOMAIN pkg |-> IF p \in new THEN acked[p] \cup {d}
                                                   ELSE acked[p]]
        gone == {p \in new : Done(p, acks[p])}
    IN  /\ d \in enrolled /\ Owner[d] \in Manager
        /\ \A p \in ids \cap DOMAIN pkg : Relays(d, pkg[p].project)
        /\ pkg' = Kept(pkg, gone)
        /\ acked' = Kept(acks, gone)
        /\ vector' = [x \in DOMAIN vector |-> vector[x] +
                        Cardinality({p \in new : x = <<pkg[p].project, d>>})]
        /\ issued' = [p \in DOMAIN issued |->
                        IF p \in new THEN [issued[p] EXCEPT !.seen = @ \cup {d}]
                                     ELSE issued[p]]
        /\ UNCHANGED <<now, policyVars, deviceVars, upload, purge>>

\* What listPackages and readPackage answer to a device.
Listed(d, j) ==
    {p \in OfProject(j) : d \notin acked[p] /\ pkg[p].expires > now}

Downloadable(p) == p \in DOMAIN pkg /\ pkg[p].expires > now

-----------------------------------------------------------------------------
\* The purge job and the clock

NextDay ==
    /\ now < LastDay
    /\ now' = now + 1
    /\ UNCHANGED <<policyVars, deviceVars, packageVars, purge>>

\* runPurge fixes its now when it starts.
PurgeStart ==
    /\ purge = -1
    /\ purge' = now
    /\ UNCHANGED <<now, policyVars, deviceVars, packageVars>>

\* Mutant: only a package somebody acknowledged is due.
DueOnceAcknowledged ==
    {p \in DOMAIN pkg : pkg[p].expires <= purge /\ acked[p] # {}}

\* expiredPackages and shouldPurge
Due == {p \in DOMAIN pkg : pkg[p].expires <= purge}

\* One transaction: the oldest due packages, one batch of them, and some
\* expired upload keys.  A batch that was not full ends the run.
PurgeBatch ==
    /\ purge # -1
    /\ \E gone \in SUBSET Due,
          keys \in SUBSET {k \in DOMAIN upload : upload[k].expires <= purge} :
         /\ Cardinality(gone) = Earlier(BatchSize, Cardinality(Due))
         /\ \A p \in gone, q \in Due \ gone : pkg[p].expires <= pkg[q].expires
         /\ Cardinality(keys) <= BatchSize
         /\ pkg' = Kept(pkg, gone)
         /\ acked' = Kept(acked, gone)
         /\ upload' = Kept(upload, keys)
         /\ purge' = IF BatchSize \in {Cardinality(gone), Cardinality(keys)}
                     THEN purge ELSE -1
    /\ UNCHANGED <<now, policyVars, deviceVars, vector, issued>>

\* The transaction fails, or the server restarts: the run is over.
PurgeFails ==
    /\ purge # -1
    /\ purge' = -1
    /\ UNCHANGED <<now, policyVars, deviceVars, packageVars>>

\* A request or its replica is lost before its transaction.
EditLost(c) ==
    /\ edit[c] # NoEdit
    /\ edit' = [edit EXCEPT ![c] = NoEdit]
    /\ UNCHANGED <<now, orgDays, project, member, deviceVars,
                   packageVars, purge>>

PolicyStep ==
    \/ \E c \in Call, u \in User, j \in Project :
          CreateBegin(c, u, j) \/ \E patch \in Patch : PatchBegin(c, u, j, patch)
    \/ \E c \in Call : CreateCommit(c) \/ PatchCommit(c) \/ EditLost(c)
    \/ \E u \in User, j \in Project : AddMember(u, j) \/ RemoveMember(u, j)
    \/ \E d \in Device : Enrol(d) \/ Revoke(d)
    \/ \E days \in Windows : Configure(days)

PurgeStep == PurgeStart \/ PurgeBatch \/ PurgeFails

RelayNext ==
    \/ PolicyStep
    \/ \E d \in Device, j \in Project, key \in Key, p \in Package,
          size \in Sizes : Upload(d, j, key, p, size)
    \/ \E d \in Device, ids \in SUBSET Package : Acknowledge(d, ids)
    \/ NextDay
    \/ PurgeStep

RelaySpec == RelayInit /\ [][RelayNext]_relayVars

\* The interval keeps starting purge runs, and a run's transaction does not
\* fail for ever.
RelayFairness == WF_relayVars(PurgeStart) /\ SF_relayVars(PurgeBatch)

RelayFairSpec == RelaySpec /\ RelayFairness

-----------------------------------------------------------------------------
\* Properties

\* The ceilings hold for what is stored, expired packages the purge has not
\* reached included, whatever uploads arrive together (BE-RELAY-10).
StorageBounded ==
    /\ Bytes(DOMAIN pkg) <= OrgCeiling
    /\ \A j \in Project : Bytes(OfProject(j)) <= ProjectCeiling

\* However often an upload is retried, and though its key and the package
\* both expire, no two copies of it are ever offered to devices.
OneLiveCopyPerUpload ==
    \A p, q \in DOMAIN pkg :
        (/\ pkg[p].expires > now /\ pkg[q].expires > now
         /\ UploadKeyOf(p) = UploadKeyOf(q)) => p = q

\* A package leaves the relay before its expiry only when every active device
\* of the project's members has acknowledged it (BE-RELAY-03): a device that
\* joined late, or whose owner was added again, still gets it.
PurgedEarlyOnlyWhenDone ==
    [][\A p \in DOMAIN pkg \ DOMAIN pkg' :
          pkg[p].expires <= now
          \/ \A d \in Audience(pkg[p].project) :
                d \in issued'[p].seen]_relayVars

\* A device's version-vector counter is its uploads and its acknowledgements,
\* each counted once however often it is sent again.
VectorCountsOnce ==
    \A j \in Project, d \in Device :
        vector[<<j, d>>] =
            Cardinality({p \in DOMAIN issued : issued[p].project = j
                                              /\ issued[p].author = d})
            + Cardinality({p \in DOMAIN issued : issued[p].project = j
                                                /\ d \in issued[p].seen})

\* An expired package is purged, acknowledged or not, although runs fail and
\* more packages expire while one is under way (BE-RELAY-04).
ExpiredIsPurged ==
    \A p \in Package :
        (p \in DOMAIN pkg /\ pkg[p].expires <= now) ~> p \notin DOMAIN pkg

=============================================================================
