---------------------------- MODULE PackageMerge ----------------------------
(***************************************************************************)
(* How the devices of a project bring one field of one record together.    *)
(* Each captures and edits a row of its own, exports packages, and merges  *)
(* the packages of the others in any order and any number of times.  A     *)
(* merge is planned at its preview and applied later, with the choices of  *)
(* the person at the device; the last merge of a device can be undone.     *)
(***************************************************************************)
EXTENDS Integers, FiniteSets, Sequences, SequencesExt

CONSTANTS
    Device,        \* installations of the app that share the project
    Text,          \* what the field may read as
    Empty,         \* the text of a value with nothing in it
    NoDevice,      \* the author of no row
    DecisionLimit, \* bound: writes and answers of persons and pipelines
    RevLimit,      \* bound: revisions of a row
    PackageLimit,  \* bound: packages exported
    SessionLimit   \* bound: merges a device has not undone

ASSUME MergeAssumption ==
    /\ Empty \in Text
    /\ NoDevice \notin Device
    /\ {DecisionLimit, RevLimit, PackageLimit, SessionLimit} \subseteq Nat

VARIABLES
    row,        \* the field's row in record_fields, by device
    clock,      \* version_vectors: by device and row, the writes seen of each
    packages,   \* every package exported so far
    plan,       \* the open preview of a device
    conflicts,  \* merge_conflicts, by device
    sessions,   \* merges a device applied and has not undone, oldest first
    known,      \* (history) the decisions on its row a device takes into account
    strayed     \* (history) a merge was applied where its plan did not fit

vars == <<row, clock, packages, plan, conflicts, sessions, known, strayed>>

-----------------------------------------------------------------------------
\* Rows, clocks and packages

\* A row keeps the id the device that captured it gave it.
Source == {"manual", "scanned", "inferred"}
Rows == [id : Device, text : Text, verified : BOOLEAN, source : Source,
         rev : Nat \ {0}]
NoRow == [id |-> NoDevice, text |-> Empty, verified |-> FALSE,
          source |-> "inferred", rev |-> 0]

\* The next revision of r.
Rewritten(r, v, f, s) == [id |-> r.id, text |-> v, verified |-> f,
                          source |-> s, rev |-> r.rev + 1]

Clocks == [Device -> Nat]
Zero == [e \in Device |-> 0]
Larger(m, n) == IF m < n THEN n ELSE m
Join(c, k) == [e \in Device |-> Larger(c[e], k[e])]

\* Mutant: only the components the clock itself has are compared.
CoversShared(c, k) == \A e \in Device : c[e] = 0 \/ k[e] <= c[e]

\* Clock c has seen all that k has; k[e] is 0 when k has no component of e.
Covers(c, k) == \A e \in Device : k[e] <= c[e]

\* What was decided at a device about a row, numbered by the count of the
\* write; kept when it was to keep the device's own value.
Decisions == [by : Device, row : Device, count : Nat, kept : BOOLEAN]

\* A package, as far as it is about this field.
Packages == [row : Rows, clock : Clocks, known : SUBSET Decisions]

Conflicts == [id : Device, mine : Text, theirs : Text,
              resolution : {"open", "mine", "theirs", "typed"}]

Verdicts == {"insert", "same", "kept", "forward", "rule theirs", "rule mine",
             "answered", "conflict"}
NoPlan == [verdict |-> "none"]
Plans == [verdict : Verdicts, package : Packages, row : Rows \cup {NoRow}]

Sessions == [before : Rows \cup {NoRow}, after : Rows \cup {NoRow},
             conflicts : SUBSET Conflicts, known : SUBSET Decisions]

TypeOK ==
    /\ row \in [Device -> Rows \cup {NoRow}]
    /\ clock \in [Device -> [Device -> Clocks]]
    /\ packages \subseteq Packages
    /\ plan \in [Device -> Plans \cup {NoPlan}]
    /\ conflicts \in [Device -> SUBSET Conflicts]
    /\ sessions \in [Device -> Seq(Sessions)]
    /\ known \in [Device -> SUBSET Decisions]
    /\ strayed \in BOOLEAN

Init ==
    /\ row = [d \in Device |-> NoRow]
    /\ clock = [d \in Device |-> [i \in Device |-> Zero]]
    /\ packages = {}
    /\ plan = [d \in Device |-> NoPlan]
    /\ conflicts = [d \in Device |-> {}]
    /\ sessions = [d \in Device |-> <<>>]
    /\ known = [d \in Device |-> {}]
    /\ strayed = FALSE

-----------------------------------------------------------------------------
\* Writing the row on one device

\* The triggers of version_vectors count a write of device d that leaves the
\* row at revision n.
Counted(c, d, n) == [c EXCEPT ![d] = Larger(@ + 1, n)]

\* The bound on what is decided, counted over the values there are.
MayDecide == Cardinality(UNION Range(known)) < DecisionLimit

Decision(d, i, c, own) == [by |-> d, row |-> i, count |-> c[d], kept |-> own]

\* A person at d, or the pipeline, leaves r as the row.
Writes(d, r) ==
    LET c == Counted(clock[d][r.id], d, r.rev) IN
    /\ MayDecide
    /\ r.rev <= RevLimit
    /\ row' = [row EXCEPT ![d] = r]
    /\ clock' = [clock EXCEPT ![d][r.id] = c]
    /\ known' = [known EXCEPT ![d] = @ \cup {Decision(d, r.id, c, FALSE)}]
    /\ UNCHANGED <<packages, plan, strayed>>

\* The pipeline, or a person at capture, fills a field this device lacks.
Capture(d, v, s) ==
    /\ row[d] = NoRow
    /\ clock[d][d] = Zero
    /\ Writes(d, [id |-> d, text |-> v, source |-> s, verified |-> FALSE,
                  rev |-> 1])
    /\ UNCHANGED <<conflicts, sessions>>

\* A correction in the record: verified, and entered by hand.
Edit(d, v) ==
    /\ row[d] # NoRow /\ row[d].text # v
    /\ Writes(d, Rewritten(row[d], v, TRUE, "manual"))
    /\ UNCHANGED <<conflicts, sessions>>

\* A person settles on one reading, which may be the one already shown; the
\* verified mark stays as it is.
ChooseFinal(d, v) ==
    /\ row[d] # NoRow
    /\ Writes(d, Rewritten(row[d], v, row[d].verified, row[d].source))
    /\ UNCHANGED <<conflicts, sessions>>

Verify(d) ==
    /\ row[d] # NoRow /\ ~row[d].verified /\ row[d].text # Empty
    /\ Writes(d, Rewritten(row[d], row[d].text, TRUE, row[d].source))
    /\ UNCHANGED <<conflicts, sessions>>

-----------------------------------------------------------------------------
\* Packages and previews

\* What a device holds of the field, as it would export it.
Holds(d) == [row |-> row[d], clock |-> clock[d][row[d].id], known |-> known[d]]

Export(d) ==
    /\ row[d] # NoRow
    /\ Cardinality(packages) < PackageLimit
    /\ packages' = packages \cup {Holds(d)}
    /\ UNCHANGED <<row, clock, plan, conflicts, sessions, known, strayed>>

Untouched(r) == r.rev <= 1

\* The rules that let the value of one row win over another's, in order.
VerifiedWins(r, s) == r.verified /\ ~s.verified
ScannedWins(r, s) ==
    r.verified = s.verified /\ r.source = "scanned" /\ s.source = "inferred"
EnteredWins(r, s) ==
    /\ r.verified = s.verified
    /\ ~ScannedWins(s, r)
    /\ s.text = Empty /\ Untouched(s)
Wins(r, s) == VerifiedWins(r, s) \/ ScannedWins(r, s) \/ EnteredWins(r, s)

\* A person here already kept the device's own value against this one.
Decided(d, t) ==
    \E c \in conflicts[d] :
        c.id = row[d].id /\ c.theirs = t /\ c.resolution = "mine"

\* What a plan makes of the value in package p: only with neither clock
\* covering the other do the rules, then a person, decide.
Verdict(d, p) ==
    LET r == row[d]
        seen == clock[d][r.id]
    IN CASE r = NoRow -> "insert"
         [] r # NoRow /\ r.text = p.row.text -> "same"
         [] r # NoRow /\ r.text # p.row.text ->
              CASE Covers(seen, p.clock) -> "kept"
                [] Covers(p.clock, seen) /\ ~Covers(seen, p.clock) -> "forward"
                [] ~Covers(p.clock, seen) /\ ~Covers(seen, p.clock) ->
                     CASE Wins(p.row, r) -> "rule theirs"
                       [] Wins(r, p.row) -> "rule mine"
                       [] OTHER -> IF Decided(d, p.row.text) THEN "answered"
                                                             ELSE "conflict"

\* The preview plans the merge from what the device holds at that instant.
Preview(d, p) ==
    /\ plan[d] = NoPlan
    /\ plan' = [plan EXCEPT ![d] = [verdict |-> Verdict(d, p), package |-> p,
                                    row |-> row[d]]]
    /\ UNCHANGED <<row, clock, packages, conflicts, sessions, known, strayed>>

Close(d) ==
    /\ plan[d] # NoPlan
    /\ plan' = [plan EXCEPT ![d] = NoPlan]
    /\ UNCHANGED <<row, clock, packages, conflicts, sessions, known, strayed>>

-----------------------------------------------------------------------------
\* Applying a merge: one transaction

\* The package's clock joins that of row i when the device holds the row too.
Joined(d, p, i) == IF p.row.id = i /\ row[d].id = i
                   THEN Join(clock[d][i], p.clock) ELSE clock[d][i]

\* A decision at d comes after all that both sides have seen.
Decisive(d, p, i) == LET c == Joined(d, p, i) IN [c EXCEPT ![d] = @ + 1]

\* The clock behind a value that a merge writes as r.
Written(d, p, r) == Counted(Joined(d, p, r.id), d, r.rev)

\* (history) What was decided about the row elsewhere joins what is known of it.
OfItsRow(d, p) == p.row.id = row[d].id
Learnt(d, p) == IF OfItsRow(d, p) THEN known[d] \cup p.known ELSE known[d]

\* The merge leaves row r, clock c of row i, conflicts q, and k behind them.
Leaves(d, r, i, c, q, k) ==
    /\ Len(sessions[d]) < SessionLimit
    /\ row' = [row EXCEPT ![d] = r]
    /\ clock' = [clock EXCEPT ![d][i] = c]
    /\ conflicts' = [conflicts EXCEPT ![d] = q]
    /\ known' = [known EXCEPT ![d] = k]
    /\ sessions' = [sessions EXCEPT ![d] = Append(@,
            [before |-> row[d], after |-> r, conflicts |-> conflicts[d],
             known |-> k])]
    /\ plan' = [plan EXCEPT ![d] = NoPlan]
    /\ UNCHANGED packages

\* A merge that fits its plan, or one that does not.
Strays(unfit) == strayed' = (strayed \/ unfit)
RowChanged(d) == row[d] # plan[d].row

\* Mutant: the triggers count the rows that arrive as writes of their author.
ArrivedCounted(d, p) ==
    [Join(clock[d][p.row.id], p.clock) EXCEPT ![p.row.id] = @ + 1]

\* Rows arrive whole, with their clocks: the triggers are held meanwhile.
Arrived(d, p) == Join(clock[d][p.row.id], p.clock)

Insert(d) ==
    LET p == plan[d].package
        i == p.row.id
    IN
    /\ plan[d].verdict = "insert"
    /\ row[d] = NoRow
    /\ Leaves(d, p.row, i, Arrived(d, p), conflicts[d], p.known)
    /\ Strays(clock[d][i] # Zero)

\* Nothing to write: only the clocks are joined.
Keep(d) ==
    LET p == plan[d].package
        i == plan[d].row.id
    IN
    /\ plan[d].verdict \in {"same", "kept", "rule mine", "answered"}
    /\ Leaves(d, row[d], i, Joined(d, p, i), conflicts[d],
              IF plan[d].verdict = "kept" THEN known[d] ELSE Learnt(d, p))
    /\ Strays(RowChanged(d))

\* A value taken without a person: its author saw all that this device has,
\* or a rule prefers it.
Take(d) ==
    LET p == plan[d].package
        r == Rewritten(row[d], p.row.text, p.row.verified, row[d].source)
        c == Written(d, p, r)
    IN
    /\ plan[d].verdict \in {"forward", "rule theirs"}
    /\ r.id = plan[d].row.id
    /\ r.rev <= RevLimit
    /\ Leaves(d, r, r.id, c, conflicts[d],
              IF plan[d].verdict = "forward" /\ OfItsRow(d, p)
              THEN p.known ELSE Learnt(d, p))
    /\ Strays(RowChanged(d))

\* The conflict of the plan, as the person of d resolves it.
Conflict(d, choice) ==
    [id |-> plan[d].row.id, mine |-> plan[d].row.text,
     theirs |-> plan[d].package.row.text, resolution |-> choice]

\* An answer also settles earlier deferrals of the very same two values.
Answered(d, choice) ==
    (conflicts[d] \ {Conflict(d, "open")}) \cup {Conflict(d, choice)}

DecideMine(d) ==
    LET p == plan[d].package
        i == plan[d].row.id
        c == Decisive(d, p, i)
    IN
    /\ plan[d].verdict = "conflict"
    /\ MayDecide
    /\ Leaves(d, row[d], i, c, Answered(d, "mine"),
              Learnt(d, p) \cup {Decision(d, i, c, TRUE)})
    /\ Strays(RowChanged(d))

\* The incoming value, or one the person types, is written as verified.
DecideValue(d, choice, v) ==
    LET p == plan[d].package
        r == Rewritten(row[d], v, TRUE, row[d].source)
        c == Written(d, p, r)
    IN
    /\ plan[d].verdict = "conflict"
    /\ choice = "theirs" => v = p.row.text
    /\ r.id = plan[d].row.id
    /\ MayDecide
    /\ r.rev <= RevLimit
    /\ Leaves(d, r, r.id, c, Answered(d, choice),
              Learnt(d, p) \cup {Decision(d, r.id, c, FALSE)})
    /\ Strays(RowChanged(d))

\* Mutant: the clocks are joined whether or not somebody decided.
PendingJoined(d, i) == Joined(d, plan[d].package, i)

\* Left open: what the package has seen is not counted as seen here.
Pending(d, i) == clock[d][i]

Defer(d) ==
    LET i == plan[d].row.id IN
    /\ plan[d].verdict = "conflict"
    /\ Leaves(d, row[d], i, Pending(d, i),
              conflicts[d] \cup {Conflict(d, "open")}, known[d])
    /\ Strays(RowChanged(d))

\* A write the rows no longer allow fails the merge, and the plan stays open.
ApplyFails(d) ==
    /\ \/ plan[d].verdict = "insert" /\ row[d] # NoRow
       \/ /\ plan[d].verdict \in {"forward", "rule theirs", "conflict"}
          /\ row[d].id # plan[d].row.id
    /\ UNCHANGED vars

-----------------------------------------------------------------------------
\* Undoing the last merge

\* Mutant: only the text is compared with what the merge left.
UnchangedText(d, s) == s.before # s.after => row[d].text = s.after.text

\* The row is still what the merge left.
Unchanged(d, s) == s.before # s.after => row[d] = s.after

\* The row and the conflicts return; an earlier row returns as a new write.
\* The joined clocks stay.
Undo(d) ==
    LET s == Last(sessions[d]) IN
    /\ sessions[d] # <<>>
    /\ Unchanged(d, s)
    /\ sessions' = [sessions EXCEPT ![d] = Front(@)]
    /\ conflicts' = [conflicts EXCEPT ![d] = s.conflicts]
    /\ \/ /\ s.before = s.after
          /\ UNCHANGED <<row, clock, packages, plan, known, strayed>>
       \/ /\ s.before # s.after /\ s.before = NoRow
          /\ row' = [row EXCEPT ![d] = NoRow]
          /\ known' = [known EXCEPT ![d] = {}]
          /\ UNCHANGED <<clock, packages, plan, strayed>>
       \/ /\ s.before # s.after /\ s.before # NoRow
          /\ Writes(d, [s.before EXCEPT !.rev = s.after.rev + 1])

\* The retention of the oldest merge passes: it can no longer be undone.
Lapse(d) ==
    /\ sessions[d] # <<>>
    /\ sessions' = [sessions EXCEPT ![d] = Tail(@)]
    /\ UNCHANGED <<row, clock, packages, plan, conflicts, known, strayed>>

-----------------------------------------------------------------------------

Next ==
    \E d \in Device :
        \/ \E v \in Text, s \in {"scanned", "inferred"} : Capture(d, v, s)
        \/ \E v \in Text : Edit(d, v) \/ ChooseFinal(d, v)
        \/ Verify(d) \/ Export(d)
        \/ \E p \in packages : Preview(d, p)
        \/ Close(d)
        \/ Insert(d) \/ Keep(d) \/ Take(d)
        \/ DecideMine(d) \/ Defer(d)
        \/ \E c \in {"theirs", "typed"}, v \in Text : DecideValue(d, c, v)
        \/ ApplyFails(d)
        \/ Undo(d) \/ Lapse(d)

Spec == Init /\ [][Next]_vars

-----------------------------------------------------------------------------
\* Properties

(***************************************************************************)
(* No device counts more writes of another than that device made, however  *)
(* often packages arrive, in whatever order and undone between.  A count   *)
(* ahead of its author would let the author's own later writes pass for    *)
(* seen (_mergeVectors, _advanceDecisionVectors and the triggers).         *)
(***************************************************************************)
NobodyKnowsMore ==
    \A d, e, i \in Device : clock[d][i][e] <= clock[e][i][e]

(***************************************************************************)
(* A device whose clock counts a decision has taken that decision into     *)
(* account, or every device of the row still to bring it would be passed   *)
(* over as seen: deferrals leave the clocks apart, everything else that    *)
(* joins them brings what is behind them (the rows _mergeVectors leaves    *)
(* pending, _advanceDecisionVectors).  Promised as long as every merge was *)
(* applied to the row and the clock its preview saw: an edit in between is *)
(* overwritten with nobody asked, which strayed records.                   *)
(***************************************************************************)
CountedIsKnown ==
    ~strayed =>
    \A d, e \in Device :
        row[d] # NoRow /\ row[e].id = row[d].id =>
            \A k \in known[e] :
                k.count <= clock[d][row[d].id][k.by] => k \in known[d]

Merges(d) == Len(sessions'[d]) > Len(sessions[d])
Undoes(d) == Len(sessions'[d]) < Len(sessions[d])

(***************************************************************************)
(* A merge that asks nobody loses nothing anybody decided about the row:   *)
(* a value is replaced by its clock alone only when the package was made   *)
(* over every decision behind it, and an incoming value is passed over by  *)
(* its clock alone only when the device's own was made over every decision *)
(* behind the package (compareVectors and the rows _mergeVectors leaves    *)
(* pending).  It too is promised until a merge was applied to a row its    *)
(* preview did not see, this one included.                                 *)
(***************************************************************************)
NoSilentLoss ==
    [][\A d \in Device : Merges(d) /\ ~strayed' =>
         LET theirs == plan[d].package.known IN
         OfItsRow(d, plan[d].package) =>
         /\ plan[d].verdict = "forward" => known[d] \subseteq theirs
         /\ plan[d].verdict = "kept" => theirs \subseteq known[d]]_vars

OwnWrites(d) == {k \in known[d] : k.by = d /\ ~k.kept}

(***************************************************************************)
(* Undoing a merge takes back no write made at the device after it: not an *)
(* edit, not a mere verification, and not one that later merges surround   *)
(* (ensureUnchanged and the refusal while a newer merge stands).           *)
(***************************************************************************)
UndoLosesNoEdit ==
    [][\A d \in Device : Undoes(d) /\ row'[d] # row[d] =>
         strayed \/ OwnWrites(d) \subseteq Last(sessions[d]).known]_vars
=============================================================================
