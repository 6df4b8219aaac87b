------------------------- MODULE PackageMergeProofs -------------------------
(***************************************************************************)
(* What holds of the package merge for any number of devices and packages, *)
(* any texts and any bounds: nobody counts writes that were not made, a    *)
(* merge that asks nobody loses no decision, and an undo takes back no     *)
(* later write.                                                            *)
(***************************************************************************)
EXTENDS PackageMerge, SequenceTheorems, TLAPS

\* A plan inserts exactly where the preview found no row.
PlansFit ==
    \A d \in Device : plan[d] # NoPlan =>
        (plan[d].verdict = "insert" <=> plan[d].row = NoRow)

\* The merges a device may still undo, in no order.
Undoable(d) == {sessions[d][n] : n \in 1..Len(sessions[d])}

\* A merge never changes which row a device holds, except from none to one.
Fitting(s) == s.before # s.after => /\ s.after # NoRow
                                    /\ s.before.id \in {s.after.id, NoDevice}

SessionsFit == \A d \in Device : \A s \in Undoable(d) : Fitting(s)

TypeInv == TypeOK /\ PlansFit /\ SessionsFit

-----------------------------------------------------------------------------
\* Rows, clocks and plans keep their shapes.

LEMMA RowTypes ==
    ASSUME NEW r \in Rows \cup {NoRow}
    PROVE  /\ NoRow \notin Rows
           /\ r # NoRow <=> r \in Rows
           /\ r # NoRow <=> r.id \in Device
           /\ r.rev \in Nat /\ r.text \in Text
BY MergeAssumption DEF Rows, NoRow

LEMMA RewrittenRow ==
    ASSUME NEW b \in Rows \cup {NoRow}, NEW v \in Text, NEW f \in BOOLEAN,
           NEW s \in Source
    PROVE  /\ b \in Rows => Rewritten(b, v, f, s) \in Rows
           /\ Rewritten(b, v, f, s).id = b.id
           /\ Rewritten(b, v, f, s).rev = b.rev + 1
BY DEF Rewritten, Rows, NoRow

LEMMA ReturnedRow ==
    ASSUME NEW b \in Rows, NEW n \in Nat \ {0}
    PROVE  /\ [b EXCEPT !.rev = n] \in Rows
           /\ [b EXCEPT !.rev = n].id = b.id
           /\ [b EXCEPT !.rev = n].rev = n
BY DEF Rows

LEMMA JoinProperties ==
    ASSUME NEW c \in Clocks, NEW k \in Clocks
    PROVE  /\ Join(c, k) \in Clocks
           /\ \A e \in Device : /\ c[e] <= Join(c, k)[e]
                                /\ k[e] <= Join(c, k)[e]
                                /\ Join(c, k)[e] \in {c[e], k[e]}
BY DEF Join, Larger, Clocks

LEMMA CountedProperties ==
    ASSUME NEW c \in Clocks, NEW d \in Device, NEW n \in Nat
    PROVE  /\ Counted(c, d, n) \in Clocks
           /\ Counted(c, d, n)[d] > c[d]
           /\ \A e \in Device \ {d} : Counted(c, d, n)[e] = c[e]
BY DEF Counted, Larger, Clocks

LEMMA DecisionType ==
    ASSUME NEW d \in Device, NEW i \in Device, NEW c \in Clocks,
           NEW own \in BOOLEAN
    PROVE  /\ Decision(d, i, c, own) \in Decisions
           /\ Decision(d, i, c, own).by = d /\ Decision(d, i, c, own).row = i
           /\ Decision(d, i, c, own).count = c[d]
           /\ Decision(d, i, c, own).kept = own
BY DEF Decision, Decisions, Clocks

LEMMA PlanTypes ==
    ASSUME TypeInv, NEW d \in Device, plan[d] # NoPlan
    PROVE  /\ plan[d] \in Plans /\ plan[d].verdict \in Verdicts
           /\ plan[d].package \in Packages /\ plan[d].package.row \in Rows
           /\ plan[d].package.clock \in Clocks
           /\ plan[d].package.known \subseteq Decisions
           /\ plan[d].row \in Rows \cup {NoRow}
           /\ plan[d].row.text \in Text /\ plan[d].package.row.text \in Text
           /\ plan[d].package.row.id \in Device
           /\ plan[d].verdict # "insert" => /\ plan[d].row \in Rows
                                            /\ plan[d].row.id \in Device
<1>1. plan[d] \in Plans
  BY DEF TypeInv, TypeOK
<1>2. /\ plan[d].verdict \in Verdicts /\ plan[d].package \in Packages
      /\ plan[d].row \in Rows \cup {NoRow}
  BY <1>1 DEF Plans
<1>3. /\ plan[d].package.row \in Rows
      /\ plan[d].package.clock \in Clocks
      /\ plan[d].package.known \subseteq Decisions
  BY <1>2 DEF Packages
<1>4. plan[d].package.row.id \in Device /\ plan[d].package.row.text \in Text
  BY <1>3 DEF Rows
<1>5. plan[d].row.text \in Text
  BY <1>2, MergeAssumption DEF Rows, NoRow
<1>6. plan[d].verdict # "insert" => /\ plan[d].row \in Rows
                                    /\ plan[d].row.id \in Device
  BY <1>2, RowTypes DEF TypeInv, PlansFit
<1> QED
  BY <1>1, <1>2, <1>3, <1>4, <1>5, <1>6

\* A verdict is never the one of no plan.
LEMMA VerdictPlanned ==
    ASSUME NEW d \in Device, plan[d].verdict # "none"
    PROVE  plan[d] # NoPlan
BY DEF NoPlan

-----------------------------------------------------------------------------
\* What a merge leaves behind.

\* Clock c of row i is one that a merge at d may leave: it forgets nothing, and
\* what it has of another device was seen here or came with the package.
Joins(d, i, c) ==
    /\ c \in Clocks
    /\ \A e \in Device : clock[d][i][e] <= c[e]
    /\ \A e \in Device \ {d} :
         \/ c[e] = clock[d][i][e]
         \/ plan[d].package.row.id = i /\ c[e] = plan[d].package.clock[e]

LEMMA ClockType ==
    ASSUME TypeInv, NEW d \in Device, NEW i \in Device
    PROVE  clock[d][i] \in Clocks
BY DEF TypeInv, TypeOK

LEMMA JoinedShape ==
    ASSUME TypeInv, NEW d \in Device, NEW i \in Device, plan[d] # NoPlan
    PROVE  Joins(d, i, Joined(d, plan[d].package, i))
<1> DEFINE k == plan[d].package.clock
<1>1. clock[d][i] \in Clocks /\ k \in Clocks
  BY PlanTypes, ClockType
<1>2. CASE Joined(d, plan[d].package, i) = clock[d][i]
  BY <1>1, <1>2 DEF Joins, Clocks
<1>3. CASE Joined(d, plan[d].package, i) # clock[d][i]
  <2>1. /\ plan[d].package.row.id = i
        /\ Joined(d, plan[d].package, i) = Join(clock[d][i], k)
    BY <1>3 DEF Joined
  <2>2. /\ Join(clock[d][i], k) \in Clocks
        /\ \A e \in Device : /\ clock[d][i][e] <= Join(clock[d][i], k)[e]
                             /\ Join(clock[d][i], k)[e] \in {clock[d][i][e], k[e]}
    BY <1>1, JoinProperties
  <2> QED
    BY <2>1, <2>2 DEF Joins
<1> QED
  BY <1>2, <1>3

LEMMA CountingJoins ==
    ASSUME TypeInv, NEW d \in Device, NEW i \in Device, NEW c, Joins(d, i, c),
           NEW n \in Nat
    PROVE  Joins(d, i, Counted(c, d, n))
<1>1. c \in Clocks
  BY DEF Joins
<1>2. /\ Counted(c, d, n) \in Clocks
      /\ Counted(c, d, n)[d] > c[d]
      /\ \A e \in Device \ {d} : Counted(c, d, n)[e] = c[e]
  BY <1>1, CountedProperties
<1>3. c[d] \in Nat /\ Counted(c, d, n)[d] \in Nat /\ clock[d][i][d] \in Nat
  BY <1>1, <1>2, ClockType DEF Clocks
<1> QED
  BY <1>2, <1>3 DEF Joins

LEMMA DecisiveCounts ==
    ASSUME TypeInv, NEW d \in Device, NEW i \in Device, plan[d] # NoPlan
    PROVE  LET j == Joined(d, plan[d].package, i)
               c == Decisive(d, plan[d].package, i)
           IN  /\ j \in Clocks /\ c = [j EXCEPT ![d] = j[d] + 1]
               /\ c[d] = j[d] + 1 /\ Joins(d, i, c)
<1> DEFINE j == Joined(d, plan[d].package, i)
<1> DEFINE c == Decisive(d, plan[d].package, i)
<1>1. Joins(d, i, j)
  BY JoinedShape
<1>2. c = [j EXCEPT ![d] = j[d] + 1]
  BY DEF Decisive
<1>3. j \in Clocks /\ clock[d][i] \in Clocks
  BY <1>1, ClockType DEF Joins
<1> HIDE DEF c, j
<1>4. /\ c \in Clocks /\ c[d] = j[d] + 1
      /\ \A e \in Device \ {d} : c[e] = j[e]
  BY <1>2, <1>3 DEF Clocks
<1>5. j[d] \in Nat /\ clock[d][i][d] \in Nat
  BY <1>3 DEF Clocks
<1>6. Joins(d, i, c)
  BY <1>1, <1>4, <1>5 DEF Joins
<1> QED
  BY <1>2, <1>3, <1>4, <1>6 DEF c, j

\* A merge at d with the package of its plan.
MergeAt(d) ==
    \/ Insert(d) \/ Keep(d) \/ Take(d) \/ DecideMine(d) \/ Defer(d)
    \/ \E c \in {"theirs", "typed"}, v \in Text : DecideValue(d, c, v)

\* A merge leaves a row that is the one before, one written over it, or, where
\* there was none, the one of the package.
LeavesRow(d, r) ==
    \/ r = row[d]
    \/ row[d] = NoRow /\ r = plan[d].package.row
    \/ /\ row[d] \in Rows /\ r \in Rows
       /\ r.id = row[d].id /\ r.rev = row[d].rev + 1

-----------------------------------------------------------------------------
\* Every merge leaves something of this shape behind it.
MergeLeaves(d) ==
    \E r \in Rows \cup {NoRow}, i \in Device, c \in Clocks,
       q \in SUBSET Conflicts, k \in SUBSET Decisions :
        /\ Leaves(d, r, i, c, q, k)
        /\ Joins(d, i, c)
        /\ LeavesRow(d, r)
        /\ row[d] = NoRow /\ r # NoRow =>
             i = r.id /\ plan[d].package.clock[i] <= c[i]

LEMMA LearntType ==
    ASSUME TypeInv, NEW d \in Device, plan[d] # NoPlan
    PROVE  Learnt(d, plan[d].package) \in SUBSET Decisions
<1>1. plan[d].package.known \subseteq Decisions
  BY PlanTypes
<1>2. known[d] \subseteq Decisions
  BY DEF TypeInv, TypeOK
<1> QED
  BY <1>1, <1>2 DEF Learnt

LEMMA RowType ==
    ASSUME TypeInv, NEW d \in Device
    PROVE  /\ row[d] \in Rows \cup {NoRow}
           /\ conflicts[d] \in SUBSET Conflicts /\ known[d] \in SUBSET Decisions
           /\ sessions[d] \in Seq(Sessions)
BY DEF TypeInv, TypeOK

LEMMA InsertLeaves ==
    ASSUME TypeInv, NEW d \in Device, Insert(d)
    PROVE  plan[d] # NoPlan /\ MergeLeaves(d)
<1> DEFINE p == plan[d].package
           i == p.row.id
           c == Arrived(d, p)
<1>0. plan[d].verdict = "insert" /\ row[d] = NoRow
  BY DEF Insert
<1>1. plan[d] # NoPlan
  BY <1>0, VerdictPlanned
<1>2. p.row \in Rows /\ i \in Device /\ p.clock \in Clocks
      /\ p.known \in SUBSET Decisions
  BY <1>1, PlanTypes
<1>3. clock[d][i] \in Clocks
  BY <1>2, ClockType
<1>4. /\ c \in Clocks
      /\ \A e \in Device : /\ clock[d][i][e] <= c[e]
                           /\ p.clock[e] <= c[e]
                           /\ c[e] \in {clock[d][i][e], p.clock[e]}
  BY <1>2, <1>3, JoinProperties DEF Arrived
<1>5. Leaves(d, p.row, i, c, conflicts[d], p.known)
  BY DEF Insert
<1>6. Joins(d, i, c)
  BY <1>4 DEF Joins
<1>7. LeavesRow(d, p.row)
  BY <1>0 DEF LeavesRow
<1> HIDE DEF c
<1>8. MergeLeaves(d)
  BY <1>2, <1>4, <1>5, <1>6, <1>7, RowType, ZenonT(40) DEF MergeLeaves
<1> QED
  BY <1>1, <1>8

LEMMA KeepLeaves ==
    ASSUME TypeInv, NEW d \in Device, Keep(d)
    PROVE  plan[d] # NoPlan /\ MergeLeaves(d)
<1> DEFINE p == plan[d].package
           i == plan[d].row.id
           c == Joined(d, p, i)
           k == IF plan[d].verdict = "kept" THEN known[d] ELSE Learnt(d, p)
<1>0. plan[d].verdict \in {"same", "kept", "rule mine", "answered"}
  BY DEF Keep
<1>1. plan[d] # NoPlan /\ plan[d].verdict # "insert"
  BY <1>0, VerdictPlanned
<1>2. i \in Device
  BY <1>1, PlanTypes
<1>3. Joins(d, i, c) /\ c \in Clocks
  BY <1>1, <1>2, JoinedShape DEF Joins
<1>4. k \in SUBSET Decisions
  BY <1>1, LearntType, RowType
<1>5. Leaves(d, row[d], i, c, conflicts[d], k)
  BY DEF Keep
<1> HIDE DEF c, k
<1>6. MergeLeaves(d)
  BY <1>2, <1>3, <1>4, <1>5, RowType DEF MergeLeaves, LeavesRow
<1> QED
  BY <1>1, <1>6

\* A merge that writes over the row of the plan.
LEMMA WrittenLeaves ==
    ASSUME TypeInv, NEW d \in Device, plan[d] # NoPlan,
           plan[d].verdict # "insert", NEW v \in Text, NEW f \in BOOLEAN,
           Rewritten(row[d], v, f, row[d].source).id = plan[d].row.id
    PROVE  LET r == Rewritten(row[d], v, f, row[d].source) IN
           /\ row[d] \in Rows /\ r \in Rows /\ r.id = row[d].id
           /\ r.id \in Device /\ r.rev = row[d].rev + 1 /\ LeavesRow(d, r)
           /\ Joins(d, r.id, Written(d, plan[d].package, r))
           /\ Written(d, plan[d].package, r) \in Clocks
<1> DEFINE r == Rewritten(row[d], v, f, row[d].source)
<1>1. r.id \in Device
  BY PlanTypes
<1>2. r.id = row[d].id
  BY DEF Rewritten
<1>3. row[d] \in Rows
  BY <1>1, <1>2, RowTypes, RowType
<1>4. row[d].source \in Source
  BY <1>3 DEF Rows
<1>5. r \in Rows /\ r.rev = row[d].rev + 1
  BY <1>3, <1>4, RewrittenRow
<1>6. LeavesRow(d, r)
  BY <1>2, <1>3, <1>5 DEF LeavesRow
<1> HIDE DEF r
<1>7. Joins(d, r.id, Joined(d, plan[d].package, r.id))
  BY <1>1, JoinedShape
<1>8. r.rev \in Nat
  BY <1>5 DEF Rows
<1>9. Joins(d, r.id, Written(d, plan[d].package, r))
  BY <1>1, <1>7, <1>8, CountingJoins DEF Written
<1>10. Written(d, plan[d].package, r) \in Clocks
  BY <1>9 DEF Joins
<1> QED
  BY <1>1, <1>2, <1>3, <1>5, <1>6, <1>9, <1>10 DEF r

LEMMA TakeLeaves ==
    ASSUME TypeInv, NEW d \in Device, Take(d)
    PROVE  plan[d] # NoPlan /\ MergeLeaves(d)
<1> DEFINE p == plan[d].package
           r == Rewritten(row[d], p.row.text, p.row.verified, row[d].source)
           c == Written(d, p, r)
           k == IF plan[d].verdict = "forward" /\ OfItsRow(d, p)
                THEN p.known ELSE Learnt(d, p)
<1>0. plan[d].verdict \in {"forward", "rule theirs"} /\ r.id = plan[d].row.id
  BY DEF Take
<1>1. plan[d] # NoPlan /\ plan[d].verdict # "insert"
  BY <1>0, VerdictPlanned
<1>2. p.row.text \in Text /\ p.row.verified \in BOOLEAN
  BY <1>1, PlanTypes DEF Rows
<1>3. p.known \in SUBSET Decisions
  BY <1>1, PlanTypes
<1>4. k \in SUBSET Decisions
  BY <1>1, <1>3, LearntType
<1>5. /\ row[d] \in Rows /\ r \in Rows /\ r.id \in Device /\ LeavesRow(d, r)
      /\ Joins(d, r.id, c) /\ c \in Clocks
  BY <1>0, <1>1, <1>2, WrittenLeaves
<1>6. Leaves(d, r, r.id, c, conflicts[d], k)
  BY DEF Take
<1>7. row[d] # NoRow
  BY <1>5, RowTypes
<1> HIDE DEF r, c, k
<1>8. MergeLeaves(d)
  BY <1>4, <1>5, <1>6, <1>7, RowType DEF MergeLeaves
<1> QED
  BY <1>1, <1>8

LEMMA AnsweredType ==
    ASSUME TypeInv, NEW d \in Device, plan[d] # NoPlan,
           plan[d].verdict # "insert",
           NEW choice \in {"open", "mine", "theirs", "typed"}
    PROVE  /\ conflicts[d] \cup {Conflict(d, choice)} \in SUBSET Conflicts
           /\ Answered(d, choice) \in SUBSET Conflicts
<1>1. Conflict(d, choice) \in Conflicts
  BY PlanTypes DEF Conflict, Conflicts
<1> QED
  BY <1>1, RowType DEF Answered

LEMMA DecideMineLeaves ==
    ASSUME TypeInv, NEW d \in Device, DecideMine(d)
    PROVE  plan[d] # NoPlan /\ MergeLeaves(d)
<1> DEFINE p == plan[d].package
           i == plan[d].row.id
           c == Decisive(d, p, i)
           q == Answered(d, "mine")
           k == Learnt(d, p) \cup {Decision(d, i, c, TRUE)}
<1>0. plan[d].verdict = "conflict"
  BY DEF DecideMine
<1>1. plan[d] # NoPlan /\ plan[d].verdict # "insert"
  BY <1>0, VerdictPlanned
<1>2. i \in Device
  BY <1>1, PlanTypes
<1>3. Joins(d, i, c) /\ c \in Clocks
  BY <1>1, <1>2, DecisiveCounts, ZenonT(40) DEF Joins
<1>4. k \in SUBSET Decisions
  <2> HIDE DEF c
  <2>1. Decision(d, i, c, TRUE) \in Decisions
    BY <1>2, <1>3, DecisionType
  <2>2. Learnt(d, p) \in SUBSET Decisions
    BY <1>1, LearntType
  <2> QED
    BY <2>1, <2>2
<1>5. q \in SUBSET Conflicts
  BY <1>1, AnsweredType
<1>6. Leaves(d, row[d], i, c, q, k)
  BY DEF DecideMine
<1> HIDE DEF c, q, k
<1>7. MergeLeaves(d)
  BY <1>2, <1>3, <1>4, <1>5, <1>6, RowType DEF MergeLeaves, LeavesRow
<1> QED
  BY <1>1, <1>7

LEMMA DecideValueLeaves ==
    ASSUME TypeInv, NEW d \in Device, NEW choice \in {"theirs", "typed"},
           NEW v \in Text, DecideValue(d, choice, v)
    PROVE  plan[d] # NoPlan /\ MergeLeaves(d)
<1> DEFINE p == plan[d].package
           r == Rewritten(row[d], v, TRUE, row[d].source)
           c == Written(d, p, r)
           q == Answered(d, choice)
           k == Learnt(d, p) \cup {Decision(d, r.id, c, FALSE)}
<1>0. plan[d].verdict = "conflict" /\ r.id = plan[d].row.id
  BY DEF DecideValue
<1>1. plan[d] # NoPlan /\ plan[d].verdict # "insert"
  BY <1>0, VerdictPlanned
<1>2. /\ row[d] \in Rows /\ r \in Rows /\ r.id \in Device /\ LeavesRow(d, r)
      /\ Joins(d, r.id, c) /\ c \in Clocks
  BY <1>0, <1>1, WrittenLeaves
<1>3. k \in SUBSET Decisions
  <2> HIDE DEF c, r
  <2>1. Decision(d, r.id, c, FALSE) \in Decisions
    BY <1>2, DecisionType
  <2>2. Learnt(d, p) \in SUBSET Decisions
    BY <1>1, LearntType
  <2> QED
    BY <2>1, <2>2
<1>4. q \in SUBSET Conflicts
  BY <1>1, AnsweredType
<1>5. Leaves(d, r, r.id, c, q, k)
  BY DEF DecideValue
<1>6. row[d] # NoRow
  BY <1>2, RowTypes
<1> HIDE DEF r, c, q, k
<1>7. MergeLeaves(d)
  BY <1>2, <1>3, <1>4, <1>5, <1>6, RowType DEF MergeLeaves
<1> QED
  BY <1>1, <1>7

LEMMA DeferLeaves ==
    ASSUME TypeInv, NEW d \in Device, Defer(d)
    PROVE  plan[d] # NoPlan /\ MergeLeaves(d)
<1> DEFINE i == plan[d].row.id
           q == conflicts[d] \cup {Conflict(d, "open")}
<1>0. plan[d].verdict = "conflict"
  BY DEF Defer
<1>1. plan[d] # NoPlan /\ plan[d].verdict # "insert"
  BY <1>0, VerdictPlanned
<1>2. i \in Device
  BY <1>1, PlanTypes
<1>3. clock[d][i] \in Clocks
  BY <1>2, ClockType
<1>4. Joins(d, i, clock[d][i])
  BY <1>3 DEF Joins, Clocks
<1>5. q \in SUBSET Conflicts
  BY <1>1, AnsweredType
<1>6. Leaves(d, row[d], i, clock[d][i], q, known[d])
  BY DEF Defer, Pending
<1> HIDE DEF q
<1>7. MergeLeaves(d)
  BY <1>2, <1>3, <1>4, <1>5, <1>6, RowType DEF MergeLeaves, LeavesRow
<1> QED
  BY <1>1, <1>7

LEMMA MergeShape ==
    ASSUME TypeInv, NEW d \in Device, MergeAt(d)
    PROVE  plan[d] # NoPlan /\ MergeLeaves(d)
BY InsertLeaves, KeepLeaves, TakeLeaves, DecideMineLeaves, DeferLeaves,
   DecideValueLeaves DEF MergeAt

-----------------------------------------------------------------------------
\* Types are kept.

\* A step changes the clock that d keeps of row i, and no other.
ClockBecomes(d, i, c) == clock' = [clock EXCEPT ![d][i] = c]

LEMMA ClockWritten ==
    ASSUME TypeInv, NEW d \in Device, NEW i \in Device, NEW c \in Clocks,
           ClockBecomes(d, i, c)
    PROVE  /\ clock' \in [Device -> [Device -> Clocks]]
           /\ clock'[d][i] = c
           /\ \A e, j \in Device : e # d \/ j # i => clock'[e][j] = clock[e][j]
BY DEF TypeInv, TypeOK, ClockBecomes

\* What a write of the row leaves.
WriteClock(d, r) == Counted(clock[d][r.id], d, r.rev)

WrittenAs(d, r, c) ==
    /\ r.id \in Device /\ Joins(d, r.id, c) /\ c \in Clocks
    /\ clock[d][r.id][d] < c[d]
    /\ \A e \in Device \ {d} : c[e] = clock[d][r.id][e]
    /\ row' = [row EXCEPT ![d] = r] /\ row' \in [Device -> Rows \cup {NoRow}]
    /\ ClockBecomes(d, r.id, c)
    /\ clock' \in [Device -> [Device -> Clocks]]
    /\ known' = [known EXCEPT ![d] =
                    known[d] \cup {Decision(d, r.id, c, FALSE)}]
    /\ known' \in [Device -> SUBSET Decisions]
    /\ UNCHANGED <<packages, plan, strayed>>

LEMMA WritesShape ==
    ASSUME TypeInv, NEW d \in Device, NEW r \in Rows, Writes(d, r)
    PROVE  WrittenAs(d, r, WriteClock(d, r))
<1> DEFINE c == WriteClock(d, r)
<1>1. r.id \in Device /\ r.rev \in Nat
  BY DEF Rows
<1>2. clock[d][r.id] \in Clocks
  BY <1>1, ClockType
<1>3. /\ c \in Clocks /\ c[d] > clock[d][r.id][d]
      /\ \A e \in Device \ {d} : c[e] = clock[d][r.id][e]
  BY <1>1, <1>2, CountedProperties DEF WriteClock
<1>4. c[d] \in Nat /\ clock[d][r.id][d] \in Nat
  BY <1>2, <1>3 DEF Clocks
<1>5. /\ row' = [row EXCEPT ![d] = r]
      /\ ClockBecomes(d, r.id, c)
      /\ known' = [known EXCEPT ![d] =
                      known[d] \cup {Decision(d, r.id, c, FALSE)}]
      /\ UNCHANGED <<packages, plan, strayed>>
  BY DEF Writes, WriteClock, ClockBecomes
<1> HIDE DEF c
<1>6. Joins(d, r.id, c)
  <2>1. \A e \in Device : c[e] \in Nat /\ clock[d][r.id][e] \in Nat
    BY <1>2, <1>3 DEF Clocks
  <2> QED
    BY <1>3, <1>4, <2>1 DEF Joins
<1>7. row' \in [Device -> Rows \cup {NoRow}]
  BY <1>5 DEF TypeInv, TypeOK
<1>8. clock' \in [Device -> [Device -> Clocks]]
  BY <1>1, <1>3, <1>5, ClockWritten
<1>9. Decision(d, r.id, c, FALSE) \in Decisions
  BY <1>1, <1>3, DecisionType
<1>10. known' \in [Device -> SUBSET Decisions]
  BY <1>5, <1>9 DEF TypeInv, TypeOK
<1> QED
  BY <1>1, <1>3, <1>4, <1>5, <1>6, <1>7, <1>8, <1>10 DEF c, WrittenAs

LEMMA SessionsType ==
    ASSUME NEW q \in Seq(Sessions)
    PROVE  /\ \A s \in Sessions :
                /\ Append(q, s) \in Seq(Sessions)
                /\ {Append(q, s)[n] : n \in 1..Len(Append(q, s))}
                     = {q[n] : n \in 1..Len(q)} \cup {s}
           /\ q # <<>> => /\ Front(q) \in Seq(Sessions)
                          /\ {Front(q)[n] : n \in 1..Len(Front(q))}
                               \subseteq {q[n] : n \in 1..Len(q)}
                          /\ Len(Front(q)) = Len(q) - 1
           /\ q # <<>> => /\ Tail(q) \in Seq(Sessions)
                          /\ {Tail(q)[n] : n \in 1..Len(Tail(q))}
                               \subseteq {q[n] : n \in 1..Len(q)}
                          /\ Len(Tail(q)) = Len(q) - 1
           /\ q # <<>> => Last(q) \in {q[n] : n \in 1..Len(q)}
<1>1. ASSUME q # <<>> PROVE Len(q) \in Nat \ {0}
  BY <1>1
<1>2. ASSUME q # <<>>
      PROVE  /\ Front(q) \in Seq(Sessions) /\ Len(Front(q)) = Len(q) - 1
             /\ \A n \in 1..Len(Front(q)) : n \in 1..Len(q) /\ Front(q)[n] = q[n]
  <2>1. PICK m \in Nat : m + 1 = Len(q)
    BY <1>1, <1>2
  <2>2. \A n \in 1..m : n \in 1..Len(q) /\ q[n] \in Sessions
    BY <2>1
  <2>3. /\ SubSeq(q, 1, m) \in Seq(Sessions)
        /\ Len(SubSeq(q, 1, m)) = IF 1 <= m THEN m - 1 + 1 ELSE 0
        /\ \A n \in 1..(m - 1 + 1) : SubSeq(q, 1, m)[n] = q[1 + n - 1]
    BY <2>2, SubSeqProperties
  <2>4. Front(q) = SubSeq(q, 1, m)
    BY <2>1 DEF Front
  <2>5. Front(q) \in Seq(Sessions) /\ Len(Front(q)) = m
    BY <2>1, <2>3, <2>4
  <2>6. \A n \in 1..m : Front(q)[n] = q[n]
    BY <2>1, <2>3, <2>4
  <2> QED
    BY <2>1, <2>2, <2>5, <2>6
<1>3. ASSUME q # <<>>
      PROVE  /\ Tail(q) \in Seq(Sessions) /\ Len(Tail(q)) = Len(q) - 1
             /\ \A n \in 1..Len(Tail(q)) : n + 1 \in 1..Len(q) /\ Tail(q)[n] = q[n + 1]
  BY <1>1, <1>3
<1>4. ASSUME q # <<>> PROVE Len(q) \in 1..Len(q) /\ Last(q) = q[Len(q)]
  BY <1>1, <1>4 DEF Last
<1>5. ASSUME NEW s \in Sessions
      PROVE  /\ Append(q, s) \in Seq(Sessions)
             /\ {Append(q, s)[n] : n \in 1..Len(Append(q, s))}
                  = {q[n] : n \in 1..Len(q)} \cup {s}
  <2>1. /\ Append(q, s) \in Seq(Sessions) /\ Len(q) \in Nat
        /\ Len(Append(q, s)) = Len(q) + 1 /\ Append(q, s)[Len(q) + 1] = s
        /\ \A n \in 1..Len(q) : Append(q, s)[n] = q[n]
    OBVIOUS
  <2>2. 1..Len(Append(q, s)) = 1..Len(q) \cup {Len(q) + 1}
    BY <2>1
  <2> QED
    BY <2>1, <2>2
<1>6. ASSUME q # <<>>
      PROVE  {Front(q)[n] : n \in 1..Len(Front(q))}
                \subseteq {q[n] : n \in 1..Len(q)}
  BY <1>2, <1>6
<1>7. ASSUME q # <<>>
      PROVE  {Tail(q)[n] : n \in 1..Len(Tail(q))}
                \subseteq {q[n] : n \in 1..Len(q)}
  BY <1>3, <1>7
<1> QED
  BY <1>2, <1>3, <1>4, <1>5, <1>6, <1>7

\* The merges that can be undone stay the same, or one of them goes.
SessionsKept ==
    \/ sessions' = sessions
    \/ \E d \in Device :
        /\ sessions[d] # <<>>
        /\ \/ sessions' = [sessions EXCEPT ![d] = Front(sessions[d])]
           \/ sessions' = [sessions EXCEPT ![d] = Tail(sessions[d])]

LEMMA SessionsKeptType ==
    ASSUME TypeInv, SessionsKept
    PROVE  /\ sessions' \in [Device -> Seq(Sessions)] /\ SessionsFit'
           /\ \A d \in Device : Undoable(d)' \subseteq Undoable(d)
           /\ \A d \in Device : Len(sessions'[d]) <= Len(sessions[d])
<1>1. /\ sessions' \in [Device -> Seq(Sessions)]
      /\ \A d \in Device : Undoable(d)' \subseteq Undoable(d)
      /\ \A d \in Device : Len(sessions'[d]) <= Len(sessions[d])
  <2>1. CASE sessions' = sessions
    BY <2>1, RowType DEF TypeInv, TypeOK, Undoable
  <2>2. ASSUME NEW d \in Device, sessions[d] # <<>>,
               NEW q, q \in {Front(sessions[d]), Tail(sessions[d])},
               sessions' = [sessions EXCEPT ![d] = q]
        PROVE  <1>1!1 /\ <1>1!2 /\ <1>1!3
    <3>1. sessions[d] \in Seq(Sessions)
      BY RowType
    <3>2. /\ q \in Seq(Sessions) /\ Len(q) = Len(sessions[d]) - 1
          /\ {q[n] : n \in 1..Len(q)} \subseteq Undoable(d)
      BY <2>2, <3>1, SessionsType DEF Undoable
    <3>3. /\ sessions' \in [Device -> Seq(Sessions)] /\ sessions'[d] = q
          /\ \A e \in Device \ {d} : sessions'[e] = sessions[e]
      BY <2>2, <3>2 DEF TypeInv, TypeOK
    <3>4. \A e \in Device : Undoable(e)' \subseteq Undoable(e)
      BY <3>2, <3>3 DEF Undoable
    <3>5. \A e \in Device : Len(sessions[e]) \in Nat
      BY RowType
    <3> QED
      BY <3>2, <3>3, <3>4, <3>5
  <2> QED
    BY <2>1, <2>2 DEF SessionsKept
<1> QED
  BY <1>1 DEF TypeInv, SessionsFit

LEMMA WritesType ==
    ASSUME TypeInv, NEW d \in Device, NEW r \in Rows, Writes(d, r),
           conflicts' \in [Device -> SUBSET Conflicts], SessionsKept
    PROVE  TypeInv'
BY WritesShape, SessionsKeptType DEF WrittenAs, TypeInv, TypeOK, PlansFit

LEMMA StraysType ==
    ASSUME NEW d \in Device, MergeAt(d)
    PROVE  strayed' \in BOOLEAN
BY DEF MergeAt, Insert, Keep, Take, DecideMine, Defer, DecideValue, Strays

LEMMA MergeType ==
    ASSUME TypeInv, NEW d \in Device, MergeAt(d)
    PROVE  TypeInv'
<1>1. PICK r \in Rows \cup {NoRow}, i \in Device, c \in Clocks,
           q \in SUBSET Conflicts, k \in SUBSET Decisions :
        Leaves(d, r, i, c, q, k) /\ LeavesRow(d, r)
  BY MergeShape DEF MergeLeaves
<1> DEFINE s == [before |-> row[d], after |-> r, conflicts |-> conflicts[d],
                 known |-> k]
<1>2. s \in Sessions
  BY RowType DEF Sessions
<1>3. /\ row' = [row EXCEPT ![d] = r]
      /\ ClockBecomes(d, i, c)
      /\ conflicts' = [conflicts EXCEPT ![d] = q]
      /\ known' = [known EXCEPT ![d] = k]
      /\ sessions' = [sessions EXCEPT ![d] = Append(sessions[d], s)]
      /\ plan' = [plan EXCEPT ![d] = NoPlan]
      /\ packages' = packages
  BY <1>1 DEF Leaves, ClockBecomes
<1> HIDE DEF s
<1>4. /\ Append(sessions[d], s) \in Seq(Sessions)
      /\ {Append(sessions[d], s)[n] : n \in 1..Len(Append(sessions[d], s))}
           = Undoable(d) \cup {s}
  BY <1>2, RowType, SessionsType DEF Undoable
<1>5. /\ sessions' \in [Device -> Seq(Sessions)]
      /\ sessions'[d] = Append(sessions[d], s)
      /\ \A e \in Device \ {d} : sessions'[e] = sessions[e]
  BY <1>3, <1>4 DEF TypeInv, TypeOK
<1>9. Undoable(d)' = Undoable(d) \cup {s}
  BY <1>4, <1>5 DEF Undoable
<1>10. \A e \in Device \ {d} : Undoable(e)' = Undoable(e)
  BY <1>5 DEF Undoable
<1>11. Fitting(s)
  <2>1. /\ r # row[d] => r \in Rows
        /\ r # row[d] => row[d].id \in {r.id, NoDevice}
    BY <1>1, PlanTypes, MergeShape DEF LeavesRow, NoRow
  <2> QED
    BY <2>1, RowTypes DEF s, Fitting
<1>12. SessionsFit'
  BY <1>9, <1>10, <1>11 DEF TypeInv, SessionsFit
<1>6. clock' \in [Device -> [Device -> Clocks]]
  BY <1>3, ClockWritten
<1>7. /\ row' \in [Device -> Rows \cup {NoRow}]
      /\ packages' \subseteq Packages
      /\ plan' \in [Device -> Plans \cup {NoPlan}]
      /\ conflicts' \in [Device -> SUBSET Conflicts]
      /\ known' \in [Device -> SUBSET Decisions]
  BY <1>3 DEF TypeInv, TypeOK
<1>8. PlansFit'
  BY <1>3 DEF TypeInv, TypeOK, PlansFit
<1> QED
  BY <1>5, <1>6, <1>7, <1>8, <1>12, StraysType DEF TypeInv, TypeOK

\* A row is written where there was none, or over the one there is.
Captures(d) == \E r \in Rows : /\ Writes(d, r) /\ row[d] = NoRow
                               /\ r.id = d /\ clock[d][d] = Zero
Overwrites(d) == \E r \in Rows : /\ Writes(d, r) /\ row[d] \in Rows
                                 /\ r.id = row[d].id /\ r.rev = row[d].rev + 1

\* An undo takes the row away.
Clears(d) == /\ row[d] \in Rows
             /\ row' = [row EXCEPT ![d] = NoRow]
             /\ known' = [known EXCEPT ![d] = {}]
             /\ UNCHANGED <<clock, packages, plan, strayed>>

\* Neither rows nor clocks nor packages change.
Rests(d) == /\ UNCHANGED <<row, clock, packages, known, strayed>>
            /\ plan' = plan \/ plan' = [plan EXCEPT ![d] = NoPlan]

LEMMA CaptureShape ==
    ASSUME TypeInv, NEW d \in Device, NEW v \in Text,
           NEW s \in {"scanned", "inferred"}, Capture(d, v, s)
    PROVE  Captures(d) /\ UNCHANGED <<conflicts, sessions>>
<1> DEFINE r == [id |-> d, text |-> v, source |-> s, verified |-> FALSE,
                 rev |-> 1]
<1>1. r \in Rows /\ r.id = d
  BY DEF Rows, Source
<1>2. Writes(d, r) /\ row[d] = NoRow /\ clock[d][d] = Zero
      /\ UNCHANGED <<conflicts, sessions>>
  BY DEF Capture
<1> HIDE DEF r
<1> QED
  BY <1>1, <1>2 DEF Captures

\* A person's write over the row there is.
LEMMA RewriteShape ==
    ASSUME TypeInv, NEW d \in Device, row[d] # NoRow, NEW v \in Text,
           NEW f \in BOOLEAN, NEW s \in Source,
           Writes(d, Rewritten(row[d], v, f, s))
    PROVE  Overwrites(d)
<1>1. row[d] \in Rows
  BY RowTypes, RowType
<1>2. /\ Rewritten(row[d], v, f, s) \in Rows
      /\ Rewritten(row[d], v, f, s).id = row[d].id
      /\ Rewritten(row[d], v, f, s).rev = row[d].rev + 1
  BY <1>1, RewrittenRow
<1> QED
  BY <1>1, <1>2 DEF Overwrites

LEMMA EditShape ==
    ASSUME TypeInv, NEW d \in Device,
           Verify(d) \/ \E v \in Text : Edit(d, v) \/ ChooseFinal(d, v)
    PROVE  Overwrites(d) /\ UNCHANGED <<conflicts, sessions>>
<1>1. row[d] # NoRow /\ UNCHANGED <<conflicts, sessions>>
  BY DEF Verify, Edit, ChooseFinal
<1>2. row[d] \in Rows
  BY <1>1, RowTypes, RowType
<1>3. /\ row[d].text \in Text /\ row[d].verified \in BOOLEAN
      /\ row[d].source \in Source
  BY <1>2 DEF Rows
<1>4. "manual" \in Source
  BY DEF Source
<1>5. CASE Verify(d)
  BY <1>1, <1>3, <1>5, RewriteShape DEF Verify
<1>6. ASSUME NEW v \in Text, Edit(d, v) PROVE Overwrites(d)
  BY <1>1, <1>4, <1>6, RewriteShape DEF Edit
<1>7. ASSUME NEW v \in Text, ChooseFinal(d, v) PROVE Overwrites(d)
  BY <1>1, <1>3, <1>7, RewriteShape DEF ChooseFinal
<1> QED
  BY <1>1, <1>5, <1>6, <1>7

LEMMA UndoShape ==
    ASSUME TypeInv, NEW d \in Device, Undo(d)
    PROVE  LET s == Last(sessions[d]) IN
           /\ sessions[d] # <<>> /\ s \in Undoable(d)
           /\ SessionsKept /\ conflicts' \in [Device -> SUBSET Conflicts]
           /\ \/ Rests(d)
              \/ /\ s.before # s.after /\ row[d] = s.after
                 /\ Clears(d) \/ Overwrites(d)
<1> DEFINE s == Last(sessions[d])
<1>1. /\ sessions[d] # <<>> /\ Unchanged(d, s)
      /\ sessions' = [sessions EXCEPT ![d] = Front(sessions[d])]
      /\ conflicts' = [conflicts EXCEPT ![d] = s.conflicts]
  BY DEF Undo
<1>2. /\ s.before = s.after \/ s.before # s.after
      /\ s.before = s.after => UNCHANGED <<row, clock, packages, plan, known, strayed>>
      /\ s.before # s.after /\ s.before = NoRow =>
            /\ row' = [row EXCEPT ![d] = NoRow]
            /\ known' = [known EXCEPT ![d] = {}]
            /\ UNCHANGED <<clock, packages, plan, strayed>>
      /\ s.before # s.after /\ s.before # NoRow =>
            Writes(d, [s.before EXCEPT !.rev = s.after.rev + 1])
  BY DEF Undo
<1>3. sessions[d] \in Seq(Sessions)
  BY RowType
<1>4. s \in Undoable(d)
  BY <1>1, <1>3, SessionsType DEF Undoable
<1>5. s \in Sessions
  BY <1>3, <1>4 DEF Undoable
<1>6. Fitting(s)
  BY <1>4 DEF TypeInv, SessionsFit
<1> HIDE DEF s
<1>7. /\ s.before \in Rows \cup {NoRow} /\ s.after \in Rows \cup {NoRow}
      /\ s.conflicts \in SUBSET Conflicts
  BY <1>5 DEF Sessions
<1>8. SessionsKept
  BY <1>1 DEF SessionsKept
<1>9. conflicts' \in [Device -> SUBSET Conflicts]
  BY <1>1, <1>7 DEF TypeInv, TypeOK
<1>10. CASE s.before = s.after
  BY <1>1, <1>2, <1>4, <1>8, <1>9, <1>10 DEF Rests, s
<1>11. CASE s.before # s.after
  <2>1. row[d] = s.after /\ row[d] \in Rows
    BY <1>1, <1>6, <1>7, <1>11, RowTypes DEF Unchanged, Fitting
  <2>2. CASE s.before = NoRow
    <3>1. Clears(d)
      BY <1>2, <1>11, <2>1, <2>2 DEF Clears
    <3> QED
      BY <1>1, <1>4, <1>8, <1>9, <1>11, <2>1, <3>1 DEF s
  <2>3. CASE s.before # NoRow
    <3>1. s.before \in Rows /\ s.before.id \in Device /\ s.before.id # NoDevice
      BY <1>7, <2>3, RowTypes, MergeAssumption
    <3>2. s.before.id = row[d].id
      BY <1>6, <1>11, <2>1, <3>1 DEF Fitting
    <3>3. PICK n : n = s.after.rev + 1
      OBVIOUS
    <3>4. n \in Nat \ {0} /\ n = row[d].rev + 1
      BY <2>1, <3>3 DEF Rows
    <3>5. Writes(d, [s.before EXCEPT !.rev = n])
      BY <1>2, <1>11, <2>3, <3>3
    <3> DEFINE r == [s.before EXCEPT !.rev = n]
    <3>7. r \in Rows /\ r.id = s.before.id /\ r.rev = n
      BY <3>1, <3>4, ReturnedRow
    <3> HIDE DEF r
    <3>8. Writes(d, r)
      BY <3>5 DEF r
    <3>6. Overwrites(d)
      BY <2>1, <3>2, <3>4, <3>7, <3>8 DEF Overwrites
    <3> QED
      BY <1>1, <1>4, <1>8, <1>9, <1>11, <2>1, <3>6 DEF s
  <2> QED
    BY <2>2, <2>3
<1> QED
  BY <1>10, <1>11

LEMMA VerdictType ==
    ASSUME TypeInv, NEW d \in Device, NEW p \in packages
    PROVE  /\ Verdict(d, p) \in Verdicts
           /\ Verdict(d, p) = "insert" <=> row[d] = NoRow
           /\ Verdict(d, p) # "none"
BY DEF Verdict, Verdicts

\* Every step is of one of these kinds.
LEMMA Kinds ==
    ASSUME TypeInv, NEW d \in Device,
           \/ \E v \in Text, s \in {"scanned", "inferred"} : Capture(d, v, s)
           \/ \E v \in Text : Edit(d, v) \/ ChooseFinal(d, v)
           \/ Verify(d) \/ Export(d)
           \/ \E p \in packages : Preview(d, p)
           \/ Close(d)
           \/ Insert(d) \/ Keep(d) \/ Take(d)
           \/ DecideMine(d) \/ Defer(d)
           \/ \E c \in {"theirs", "typed"}, v \in Text : DecideValue(d, c, v)
           \/ ApplyFails(d)
           \/ Undo(d) \/ Lapse(d)
    PROVE  \/ /\ SessionsKept /\ conflicts' \in [Device -> SUBSET Conflicts]
              /\ Captures(d) \/ Overwrites(d) \/ Clears(d) \/ Rests(d)
           \/ Export(d)
           \/ \E p \in packages : Preview(d, p)
           \/ MergeAt(d)
<1>1. conflicts \in [Device -> SUBSET Conflicts]
  BY DEF TypeInv, TypeOK
<1>2. CASE \E v \in Text, s \in {"scanned", "inferred"} : Capture(d, v, s)
  BY <1>1, <1>2, CaptureShape DEF SessionsKept
<1>3. CASE Verify(d) \/ \E v \in Text : Edit(d, v) \/ ChooseFinal(d, v)
  BY <1>1, <1>3, EditShape DEF SessionsKept
<1>4. CASE Close(d) \/ ApplyFails(d)
  BY <1>1, <1>4 DEF Close, ApplyFails, vars, SessionsKept, Rests
<1>5. CASE Undo(d)
  BY <1>5, UndoShape
<1>6. CASE Lapse(d)
  BY <1>1, <1>6 DEF Lapse, SessionsKept, Rests
<1>7. CASE MergeAt(d) \/ Export(d) \/ \E p \in packages : Preview(d, p)
  BY <1>7
<1> QED
  BY <1>2, <1>3, <1>4, <1>5, <1>6, <1>7 DEF MergeAt

LEMMA HoldsType ==
    ASSUME TypeInv, NEW d \in Device, row[d] # NoRow
    PROVE  /\ Holds(d) \in Packages
           /\ Holds(d).row = row[d] /\ Holds(d).known = known[d]
           /\ Holds(d).clock = clock[d][row[d].id]
           /\ row[d] \in Rows /\ row[d].id \in Device
<1>1. row[d] \in Rows /\ row[d].id \in Device
  BY RowTypes, RowType
<1> QED
  BY <1>1, ClockType, RowType DEF Holds, Packages

LEMMA TypeStep ==
    ASSUME TypeInv, [Next]_vars
    PROVE  TypeInv'
<1>1. CASE UNCHANGED vars
  BY <1>1 DEF TypeInv, TypeOK, PlansFit, SessionsFit, Undoable, vars
<1>2. CASE Next
  <2>1. PICK d \in Device :
          \/ /\ SessionsKept /\ conflicts' \in [Device -> SUBSET Conflicts]
             /\ Captures(d) \/ Overwrites(d) \/ Clears(d) \/ Rests(d)
          \/ Export(d)
          \/ \E p \in packages : Preview(d, p)
          \/ MergeAt(d)
    BY <1>2, Kinds DEF Next
  <2>2. CASE /\ SessionsKept /\ conflicts' \in [Device -> SUBSET Conflicts]
             /\ Captures(d) \/ Overwrites(d)
    BY <2>2, WritesType DEF Captures, Overwrites
  <2>3. CASE /\ SessionsKept /\ conflicts' \in [Device -> SUBSET Conflicts]
             /\ Clears(d) \/ Rests(d)
    <3>1. /\ row' \in [Device -> Rows \cup {NoRow}]
          /\ plan' \in [Device -> Plans \cup {NoPlan}]
          /\ \A e \in Device : plan'[e] # NoPlan => plan'[e] = plan[e]
          /\ known' \in [Device -> SUBSET Decisions]
          /\ UNCHANGED <<clock, packages, strayed>>
      BY <2>3 DEF TypeInv, TypeOK, Clears, Rests
    <3> QED
      BY <2>3, <3>1, SessionsKeptType DEF TypeInv, TypeOK, PlansFit
  <2>4. CASE Export(d)
    <3>1. Holds(d) \in Packages
      BY <2>4, HoldsType DEF Export
    <3> QED
      BY <2>4, <3>1
         DEF Export, TypeInv, TypeOK, PlansFit, SessionsFit, Undoable
  <2>5. ASSUME NEW p \in packages, Preview(d, p) PROVE TypeInv'
    <3> DEFINE q == [verdict |-> Verdict(d, p), package |-> p, row |-> row[d]]
    <3>1. /\ plan' = [plan EXCEPT ![d] = q]
          /\ UNCHANGED <<row, clock, packages, conflicts, sessions, known, strayed>>
      BY <2>5 DEF Preview
    <3>2. p \in Packages
      BY DEF TypeInv, TypeOK
    <3>3. q \in Plans /\ (q.verdict = "insert" <=> q.row = NoRow)
      BY <3>2, RowType, VerdictType DEF Plans
    <3> HIDE DEF q
    <3>4. plan' \in [Device -> Plans \cup {NoPlan}] /\ PlansFit'
      BY <3>1, <3>3 DEF TypeInv, TypeOK, PlansFit
    <3> QED
      BY <3>1, <3>4 DEF TypeInv, TypeOK, SessionsFit, Undoable
  <2> QED
    BY <2>1, <2>2, <2>3, <2>4, <2>5, MergeType
<1> QED
  BY <1>1, <1>2

LEMMA TypeInit ==
    ASSUME Init PROVE TypeInv
<1>1. Zero \in Clocks
  BY DEF Zero, Clocks
<1>2. \A d \in Device : sessions[d] = <<>>
  BY DEF Init
<1>3. SessionsFit
  <2>1. 1..Len(<<>>) = {}
    OBVIOUS
  <2> QED
    BY <1>2, <2>1 DEF SessionsFit, Undoable
<1>4. TypeOK
  <2>1. <<>> \in Seq(Sessions)
    OBVIOUS
  <2>2. /\ row \in [Device -> Rows \cup {NoRow}]
        /\ plan \in [Device -> Plans \cup {NoPlan}]
        /\ packages \subseteq Packages /\ strayed \in BOOLEAN
    BY DEF Init
  <2>3. /\ clock \in [Device -> [Device -> Clocks]]
        /\ conflicts \in [Device -> SUBSET Conflicts]
        /\ sessions \in [Device -> Seq(Sessions)]
        /\ known \in [Device -> SUBSET Decisions]
    BY <1>1, <2>1 DEF Init
  <2> QED
    BY <2>2, <2>3 DEF TypeOK
<1>5. PlansFit
  BY DEF Init, PlansFit
<1> QED
  BY <1>3, <1>4, <1>5 DEF TypeInv

(***************************************************************************)
(* Whatever is merged, in whatever order, and undone: rows, clocks, plans, *)
(* conflicts and sessions keep their shapes, a merge writes a row only     *)
(* over one of the same id, and an undo restores that id or none           *)
(* (_writeValue, _insertFieldValues and restore).                          *)
(***************************************************************************)
THEOREM TypeCorrect == Spec => []TypeOK
<1>1. Init => TypeInv
  BY TypeInit
<1>2. TypeInv /\ [Next]_vars => TypeInv'
  BY TypeStep
<1>3. TypeInv => TypeOK
  BY DEF TypeInv
<1> QED
  BY <1>1, <1>2, <1>3, PTL DEF Spec

-----------------------------------------------------------------------------
\* Nobody counts writes that were not made.

Bounded ==
    \A p \in packages, e \in Device : p.clock[e] <= clock[e][p.row.id][e]

PlansKnown ==
    \A d \in Device : plan[d] # NoPlan => plan[d].package \in packages

CountInv == TypeInv /\ NobodyKnowsMore /\ Bounded /\ PlansKnown

ClocksGrow ==
    \A d, i, e \in Device : clock[d][i][e] <= clock'[d][i][e]

LEMMA PackageType ==
    ASSUME TypeInv, NEW p \in packages
    PROVE  /\ p \in Packages /\ p.row \in Rows /\ p.row.id \in Device
           /\ p.clock \in Clocks /\ \A e \in Device : p.clock[e] \in Nat
           /\ p.known \subseteq Decisions
BY DEF TypeInv, TypeOK, Packages, Rows, Clocks

LEMMA ClockNat ==
    ASSUME TypeInv, NEW d \in Device, NEW i \in Device, NEW e \in Device
    PROVE  clock[d][i][e] \in Nat
BY ClockType DEF Clocks

\* One clock of d grows, by what d has itself or by what packages bring.
LEMMA ClockStep ==
    ASSUME CountInv, NEW d \in Device, NEW i \in Device, NEW c \in Clocks,
           ClockBecomes(d, i, c), packages' = packages,
           \A e \in Device : clock[d][i][e] <= c[e],
           \A e \in Device \ {d} :
              \/ c[e] = clock[d][i][e]
              \/ \E p \in packages : p.row.id = i /\ c[e] = p.clock[e]
    PROVE  NobodyKnowsMore' /\ Bounded' /\ ClocksGrow
<1> USE DEF CountInv
<1>0. TypeInv
  OBVIOUS
<1>1. /\ clock'[d][i] = c
      /\ \A e, j \in Device : e # d \/ j # i => clock'[e][j] = clock[e][j]
  BY <1>0, ClockWritten
<1>2. ClocksGrow
  <2> SUFFICES ASSUME NEW x \in Device, NEW j \in Device, NEW e \in Device
               PROVE  clock[x][j][e] <= clock'[x][j][e]
    BY DEF ClocksGrow
  <2>1. CASE x = d /\ j = i
    BY <1>1, <2>1
  <2>2. CASE ~(x = d /\ j = i)
    BY <1>1, <2>2, ClockNat
  <2> QED
    BY <2>1, <2>2
<1>3. \A x, j, e \in Device : clock'[x][j][e] \in Nat
  <2>1. \A e \in Device : c[e] \in Nat
    BY DEF Clocks
  <2> QED
    BY <1>1, <2>1, ClockNat
<1>4. Bounded'
  <2> SUFFICES ASSUME NEW p \in packages, NEW e \in Device
               PROVE  p.clock[e] <= clock'[e][p.row.id][e]
    BY DEF Bounded
  <2>1. p.clock[e] <= clock[e][p.row.id][e]
    BY DEF Bounded
  <2>2. p.row.id \in Device /\ p.clock[e] \in Nat
    BY PackageType
  <2> QED
    BY <1>2, <1>3, <2>1, <2>2, ClockNat DEF ClocksGrow
<1>5. NobodyKnowsMore'
  <2> SUFFICES ASSUME NEW x \in Device, NEW e \in Device, NEW j \in Device
               PROVE  clock'[x][j][e] <= clock'[e][j][e]
    BY DEF NobodyKnowsMore
  <2>1. clock[x][j][e] <= clock[e][j][e] /\ clock[e][j][e] <= clock'[e][j][e]
    BY <1>2 DEF NobodyKnowsMore, ClocksGrow
  <2>2. CASE clock'[x][j][e] = clock[x][j][e]
    BY <1>3, <2>1, <2>2, ClockNat
  <2>3. CASE x = e
    BY <1>3, <2>3
  <2>4. ASSUME x = d, j = i, e # d, NEW p \in packages, p.row.id = i,
               c[e] = p.clock[e]
        PROVE  clock'[x][j][e] <= clock'[e][j][e]
    <3>1. p.clock[e] <= clock[e][i][e]
      BY <2>4 DEF Bounded
    <3> QED
      BY <1>1, <2>4, <3>1
  <2> QED
    BY <1>1, <2>2, <2>3, <2>4
<1> QED
  BY <1>2, <1>4, <1>5

LEMMA MergeClocks ==
    ASSUME CountInv, NEW d \in Device, MergeAt(d)
    PROVE  /\ NobodyKnowsMore' /\ Bounded' /\ ClocksGrow
           /\ packages' = packages /\ plan' = [plan EXCEPT ![d] = NoPlan]
<1>1. plan[d] # NoPlan /\ MergeLeaves(d)
  BY MergeShape DEF CountInv
<1>2. PICK r \in Rows \cup {NoRow}, i \in Device, c \in Clocks,
           q \in SUBSET Conflicts, k \in SUBSET Decisions :
        Leaves(d, r, i, c, q, k) /\ Joins(d, i, c)
  BY <1>1 DEF MergeLeaves
<1>3. /\ ClockBecomes(d, i, c) /\ packages' = packages
      /\ plan' = [plan EXCEPT ![d] = NoPlan]
  BY <1>2 DEF Leaves, ClockBecomes
<1>4. plan[d].package \in packages
  BY <1>1 DEF CountInv, PlansKnown
<1>5. /\ \A e \in Device : clock[d][i][e] <= c[e]
      /\ \A e \in Device \ {d} :
            \/ c[e] = clock[d][i][e]
            \/ plan[d].package.row.id = i /\ c[e] = plan[d].package.clock[e]
  BY <1>2 DEF Joins
<1>6. \A e \in Device \ {d} :
         \/ c[e] = clock[d][i][e]
         \/ \E p \in packages : p.row.id = i /\ c[e] = p.clock[e]
  BY <1>4, <1>5
<1> QED
  BY <1>3, <1>5, <1>6, ClockStep

LEMMA WriteClocks ==
    ASSUME CountInv, NEW d \in Device, Captures(d) \/ Overwrites(d)
    PROVE  /\ NobodyKnowsMore' /\ Bounded' /\ ClocksGrow
           /\ packages' = packages /\ plan' = plan
<1>1. PICK r \in Rows : Writes(d, r)
  BY DEF Captures, Overwrites
<1>0. TypeInv
  BY DEF CountInv
<1>5. WrittenAs(d, r, WriteClock(d, r))
  BY <1>0, <1>1, WritesShape
<1>6. PICK c : WrittenAs(d, r, c)
  BY <1>5
<1>2. /\ r.id \in Device /\ Joins(d, r.id, c) /\ c \in Clocks
      /\ \A e \in Device \ {d} : c[e] = clock[d][r.id][e]
      /\ ClockBecomes(d, r.id, c)
      /\ UNCHANGED <<packages, plan, strayed>>
  BY <1>6 DEF WrittenAs
<1>3. \A e \in Device : clock[d][r.id][e] <= c[e]
  BY <1>2 DEF Joins
<1>4. NobodyKnowsMore' /\ Bounded' /\ ClocksGrow
  BY <1>2, <1>3, ClockStep
<1> QED
  BY <1>2, <1>4

LEMMA CountStep ==
    ASSUME CountInv, [Next]_vars
    PROVE  CountInv' /\ ClocksGrow
<1>1. TypeInv'
  BY TypeStep DEF CountInv
<1>2. ASSUME clock' = clock PROVE ClocksGrow /\ NobodyKnowsMore'
  BY <1>2, ClockNat DEF ClocksGrow, CountInv, NobodyKnowsMore
<1>3. CASE UNCHANGED vars
  BY <1>1, <1>2, <1>3 DEF CountInv, Bounded, PlansKnown, vars
<1>4. CASE Next
  <2>1. PICK d \in Device :
          \/ /\ SessionsKept /\ conflicts' \in [Device -> SUBSET Conflicts]
             /\ Captures(d) \/ Overwrites(d) \/ Clears(d) \/ Rests(d)
          \/ Export(d)
          \/ \E p \in packages : Preview(d, p)
          \/ MergeAt(d)
    BY <1>4, Kinds DEF Next, CountInv
  <2>2. CASE Captures(d) \/ Overwrites(d)
    BY <1>1, <2>2, WriteClocks DEF CountInv, PlansKnown
  <2>3. CASE MergeAt(d)
    BY <1>1, <2>3, MergeClocks DEF CountInv, PlansKnown, TypeInv, TypeOK
  <2>4. CASE Clears(d) \/ Rests(d)
    <3>1. /\ UNCHANGED <<clock, packages>>
          /\ \A e \in Device : plan'[e] # NoPlan => plan'[e] = plan[e]
      BY <2>4 DEF Clears, Rests, CountInv, TypeInv, TypeOK
    <3> QED
      BY <1>1, <1>2, <3>1 DEF CountInv, Bounded, PlansKnown
  <2>5. CASE Export(d)
    <3>1. /\ packages' = packages \cup {Holds(d)} /\ row[d] # NoRow
          /\ UNCHANGED <<clock, plan>>
      BY <2>5 DEF Export
    <3>2. \A e \in Device : Holds(d).clock[e] <= clock[e][Holds(d).row.id][e]
      BY <3>1, HoldsType DEF CountInv, NobodyKnowsMore
    <3>3. Bounded' /\ PlansKnown'
      BY <3>1, <3>2 DEF CountInv, Bounded, PlansKnown
    <3> QED
      BY <1>1, <1>2, <3>1, <3>3 DEF CountInv
  <2>6. ASSUME NEW p \in packages, Preview(d, p) PROVE CountInv' /\ ClocksGrow
    <3> DEFINE q == [verdict |-> Verdict(d, p), package |-> p, row |-> row[d]]
    <3>1. /\ UNCHANGED <<clock, packages>>
          /\ plan' = [plan EXCEPT ![d] = q]
          /\ q.package = p
      BY <2>6 DEF Preview
    <3> HIDE DEF q
    <3>2. PlansKnown'
      BY <3>1 DEF CountInv, PlansKnown, TypeInv, TypeOK
    <3> QED
      BY <1>1, <1>2, <3>1, <3>2 DEF CountInv, Bounded
  <2> QED
    BY <2>1, <2>2, <2>3, <2>4, <2>5, <2>6
<1> QED
  BY <1>3, <1>4

LEMMA CountInit ==
    ASSUME Init PROVE CountInv
<1>1. \A d, i, e \in Device : clock[d][i][e] = 0
  BY DEF Init, Zero
<1>2. packages = {} /\ \A d \in Device : plan[d] = NoPlan
  BY DEF Init
<1> QED
  BY <1>1, <1>2, TypeInit DEF CountInv, NobodyKnowsMore, Bounded, PlansKnown

(***************************************************************************)
(* However often packages arrive, in whatever order, and whatever is       *)
(* undone between: no device counts more writes of another device to a row *)
(* than that device counts itself (_mergeVectors, _storeVectors, the       *)
(* triggers of version_vectors).                                           *)
(***************************************************************************)
THEOREM CountsAreReal == Spec => []NobodyKnowsMore
<1>1. Init => CountInv
  BY CountInit
<1>2. CountInv /\ [Next]_vars => CountInv'
  BY CountStep
<1>3. CountInv => NobodyKnowsMore
  BY DEF CountInv
<1> QED
  BY <1>1, <1>2, <1>3, PTL DEF Spec

-----------------------------------------------------------------------------
\* What a step at one device changes of rows, clocks and decisions.
Changes(d, r, i, c, k) ==
    /\ row'[d] = r /\ clock'[d][i] = c /\ known'[d] = k
    /\ \A j \in Device \ {i} : clock'[d][j] = clock[d][j]
    /\ \A e \in Device \ {d} :
         /\ row'[e] = row[e] /\ known'[e] = known[e]
         /\ \A j \in Device : clock'[e][j] = clock[e][j]

LEMMA WriteChanges ==
    ASSUME TypeInv, NEW d \in Device, Captures(d) \/ Overwrites(d)
    PROVE  \E r \in Rows, c \in Clocks :
             /\ \/ row[d] = NoRow /\ r.id = d /\ clock[d][d] = Zero
                \/ row[d] \in Rows /\ r.id = row[d].id /\ r.rev = row[d].rev + 1
             /\ r.id \in Device
             /\ Changes(d, r, r.id, c,
                        known[d] \cup {Decision(d, r.id, c, FALSE)})
             /\ clock[d][r.id][d] < c[d]
             /\ \A e \in Device \ {d} : c[e] = clock[d][r.id][e]
             /\ UNCHANGED <<packages, plan, strayed>>
<1>1. PICK r \in Rows :
        /\ Writes(d, r)
        /\ \/ row[d] = NoRow /\ r.id = d /\ clock[d][d] = Zero
           \/ row[d] \in Rows /\ r.id = row[d].id /\ r.rev = row[d].rev + 1
  BY DEF Captures, Overwrites
<1>2. WrittenAs(d, r, WriteClock(d, r))
  BY <1>1, WritesShape
<1>3. PICK c : WrittenAs(d, r, c)
  BY <1>2
<1>4. c \in Clocks /\ r.id \in Device /\ ClockBecomes(d, r.id, c)
  BY <1>3 DEF WrittenAs
<1>5. /\ clock'[d][r.id] = c
      /\ \A e, j \in Device : e # d \/ j # r.id => clock'[e][j] = clock[e][j]
  BY <1>4, ClockWritten
<1>6. /\ row'[d] = r /\ \A e \in Device \ {d} : row'[e] = row[e]
      /\ known'[d] = known[d] \cup {Decision(d, r.id, c, FALSE)}
      /\ \A e \in Device \ {d} : known'[e] = known[e]
  BY <1>3 DEF WrittenAs, TypeInv, TypeOK
<1>7. Changes(d, r, r.id, c, known[d] \cup {Decision(d, r.id, c, FALSE)})
  BY <1>4, <1>5, <1>6 DEF Changes
<1>8. /\ clock[d][r.id][d] < c[d]
      /\ \A e \in Device \ {d} : c[e] = clock[d][r.id][e]
      /\ UNCHANGED <<packages, plan, strayed>>
  BY <1>3 DEF WrittenAs
<1> QED
  BY <1>1, <1>4, <1>7, <1>8

NewSession(d, r, k) == [before |-> row[d], after |-> r,
                        conflicts |-> conflicts[d], known |-> k]

LEMMA LeavesChanges ==
    ASSUME TypeInv, NEW d \in Device, NEW r \in Rows \cup {NoRow},
           NEW i \in Device, NEW c \in Clocks, NEW q \in SUBSET Conflicts,
           NEW k \in SUBSET Decisions, Leaves(d, r, i, c, q, k)
    PROVE  /\ Changes(d, r, i, c, k)
           /\ packages' = packages /\ plan'[d] = NoPlan
           /\ \A e \in Device \ {d} : plan'[e] = plan[e]
           /\ Undoable(d)' = Undoable(d) \cup {NewSession(d, r, k)}
           /\ \A e \in Device \ {d} : /\ Undoable(e)' = Undoable(e)
                                      /\ sessions'[e] = sessions[e]
           /\ Len(sessions'[d]) = Len(sessions[d]) + 1
<1> DEFINE s == NewSession(d, r, k)
<1>1. /\ row' = [row EXCEPT ![d] = r]
      /\ ClockBecomes(d, i, c)
      /\ known' = [known EXCEPT ![d] = k]
      /\ sessions' = [sessions EXCEPT ![d] = Append(sessions[d], s)]
      /\ plan' = [plan EXCEPT ![d] = NoPlan]
      /\ packages' = packages
  BY DEF Leaves, ClockBecomes, NewSession
<1>2. s \in Sessions
  BY RowType DEF Sessions, NewSession
<1> HIDE DEF s
<1>3. /\ Append(sessions[d], s) \in Seq(Sessions)
      /\ {Append(sessions[d], s)[n] : n \in 1..Len(Append(sessions[d], s))}
           = Undoable(d) \cup {s}
  BY <1>2, RowType, SessionsType DEF Undoable
<1>10. Len(Append(sessions[d], s)) = Len(sessions[d]) + 1
  BY <1>2, RowType
<1>4. /\ sessions'[d] = Append(sessions[d], s)
      /\ \A e \in Device \ {d} : sessions'[e] = sessions[e]
  BY <1>1 DEF TypeInv, TypeOK
<1>5. Undoable(d)' = Undoable(d) \cup {s}
  BY <1>3, <1>4 DEF Undoable
<1>6. \A e \in Device \ {d} : Undoable(e)' = Undoable(e)
  BY <1>4 DEF Undoable
<1>7. /\ clock'[d][i] = c
      /\ \A e, j \in Device : e # d \/ j # i => clock'[e][j] = clock[e][j]
  BY <1>1, ClockWritten
<1>8. /\ row'[d] = r /\ known'[d] = k /\ plan'[d] = NoPlan
      /\ \A e \in Device \ {d} :
            row'[e] = row[e] /\ known'[e] = known[e] /\ plan'[e] = plan[e]
  BY <1>1 DEF TypeInv, TypeOK
<1>9. Changes(d, r, i, c, k)
  BY <1>7, <1>8 DEF Changes
<1> QED
  BY <1>1, <1>4, <1>5, <1>6, <1>8, <1>9, <1>10 DEF s

-----------------------------------------------------------------------------
\* What stays true of the rows, plans and sessions of a device.

\* Whoever holds a row has counted the capture of it.
OwnCounted ==
    /\ \A d \in Device : row[d] # NoRow => clock[d][row[d].id][row[d].id] > 0
    /\ \A p \in packages : p.clock[p.row.id] > 0

SessionsCounted ==
    \A d \in Device : \A s \in Undoable(d) :
        s.after # NoRow => clock[d][s.after.id][s.after.id] > 0

\* While the row of a plan is the same, the clocks are what they were, as far
\* as its verdict depends on them.
Stands(d) ==
    LET q == plan[d] IN
    /\ clock[d][q.row.id][q.row.id] > 0
    /\ q.verdict = "kept" => Covers(clock[d][q.row.id], q.package.clock)
    /\ row[d].id = q.row.id =>
         \/ q.row.rev < row[d].rev
         \/ /\ row[d] = q.row
            /\ q.verdict = "forward" =>
                 Covers(q.package.clock, clock[d][q.row.id])

PlansStand ==
    \A d \in Device : plan[d] # NoPlan /\ plan[d].row # NoRow => Stands(d)

KeepInv == CountInv /\ OwnCounted /\ SessionsCounted /\ PlansStand

LEMMA CoversLater ==
    ASSUME NEW c \in Clocks, NEW b \in Clocks, NEW k \in Clocks,
           \A e \in Device : c[e] <= b[e], Covers(c, k)
    PROVE  Covers(b, k)
BY DEF Covers, Clocks

LEMMA ClockLater ==
    ASSUME TypeInv, TypeInv', ClocksGrow, NEW d \in Device, NEW i \in Device
    PROVE  /\ clock[d][i] \in Clocks /\ clock'[d][i] \in Clocks
           /\ \A e \in Device : /\ clock[d][i][e] \in Nat
                               /\ clock'[d][i][e] \in Nat
                               /\ clock[d][i][e] <= clock'[d][i][e]
<1>1. clock[d][i] \in Clocks /\ clock'[d][i] \in Clocks
  BY DEF TypeInv, TypeOK
<1>2. \A e \in Device : clock[d][i][e] \in Nat /\ clock'[d][i][e] \in Nat
  BY <1>1 DEF Clocks
<1> QED
  BY <1>1, <1>2 DEF ClocksGrow

LEMMA StandsLater ==
    ASSUME TypeInv, TypeInv', ClocksGrow, NEW d \in Device, plan[d] # NoPlan,
           plan[d].row # NoRow, Stands(d), plan'[d] = plan[d],
           \/ row'[d].id # plan[d].row.id
           \/ row'[d] \in Rows /\ plan[d].row.rev < row'[d].rev
           \/ row'[d] = row[d] /\ clock'[d] = clock[d]
    PROVE  Stands(d)'
<1> DEFINE q == plan[d]
           i == plan[d].row.id
<1>1. q.row \in Rows /\ i \in Device /\ q.package.clock \in Clocks
  BY PlanTypes, RowTypes
<1>2. /\ clock[d][i] \in Clocks /\ clock'[d][i] \in Clocks
      /\ \A e \in Device : /\ clock[d][i][e] \in Nat /\ clock'[d][i][e] \in Nat
                          /\ clock[d][i][e] <= clock'[d][i][e]
  BY <1>1, ClockLater
<1>3. clock'[d][i][i] > 0
  BY <1>1, <1>2 DEF Stands
<1>4. q.verdict = "kept" => Covers(clock'[d][i], q.package.clock)
  BY <1>1, <1>2, CoversLater DEF Stands
<1>5. row'[d].id = i =>
         \/ q.row.rev < row'[d].rev
         \/ /\ row'[d] = q.row
            /\ q.verdict = "forward" => Covers(q.package.clock, clock'[d][i])
  BY DEF Stands
<1> QED
  BY <1>3, <1>4, <1>5 DEF Stands

LEMMA SessionType ==
    ASSUME TypeInv, NEW d \in Device, NEW s \in Undoable(d)
    PROVE  /\ s \in Sessions /\ Fitting(s)
           /\ s.before \in Rows \cup {NoRow} /\ s.after \in Rows \cup {NoRow}
           /\ s.after # NoRow => s.after.id \in Device
<1>1. sessions[d] \in Seq(Sessions)
  BY RowType
<1>2. s \in Sessions
  BY <1>1 DEF Undoable
<1>3. s.before \in Rows \cup {NoRow} /\ s.after \in Rows \cup {NoRow}
  BY <1>2 DEF Sessions
<1>4. Fitting(s)
  BY DEF TypeInv, SessionsFit
<1> QED
  BY <1>2, <1>3, <1>4, RowTypes

\* The steps of d leave alone what the other devices have.
LEMMA StandsElsewhere ==
    ASSUME KeepInv, TypeInv', ClocksGrow, NEW e \in Device,
           plan'[e] # NoPlan, plan'[e].row # NoRow, plan'[e] = plan[e],
           row'[e] = row[e], clock'[e] = clock[e]
    PROVE  Stands(e)'
BY StandsLater DEF KeepInv, CountInv, PlansStand

LEMMA ClockUntouched ==
    ASSUME TypeInv, TypeInv', NEW d \in Device,
           \A j \in Device : clock'[d][j] = clock[d][j]
    PROVE  clock'[d] = clock[d]
BY DEF TypeInv, TypeOK

LEMMA KeepUnderWrite ==
    ASSUME KeepInv, NEW d \in Device, TypeInv', ClocksGrow, SessionsKept,
           Captures(d) \/ Overwrites(d)
    PROVE  OwnCounted' /\ SessionsCounted' /\ PlansStand'
<1>1. PICK r \in Rows, c \in Clocks :
        /\ \/ row[d] = NoRow /\ r.id = d /\ clock[d][d] = Zero
           \/ row[d] \in Rows /\ r.id = row[d].id /\ r.rev = row[d].rev + 1
        /\ r.id \in Device
        /\ Changes(d, r, r.id, c, known[d] \cup {Decision(d, r.id, c, FALSE)})
        /\ clock[d][r.id][d] < c[d]
        /\ \A e \in Device \ {d} : c[e] = clock[d][r.id][e]
        /\ UNCHANGED <<packages, plan, strayed>>
  BY WriteChanges DEF KeepInv, CountInv
<1>2. \A e, j \in Device : /\ clock[e][j] \in Clocks /\ clock'[e][j] \in Clocks
                           /\ \A x \in Device :
                                /\ clock[e][j][x] \in Nat /\ clock'[e][j][x] \in Nat
                                /\ clock[e][j][x] <= clock'[e][j][x]
  BY ClockLater DEF KeepInv, CountInv
<1>3. /\ row'[d] = r /\ clock'[d][r.id] = c
      /\ \A e \in Device \ {d} :
           row'[e] = row[e] /\ \A j \in Device : clock'[e][j] = clock[e][j]
  BY <1>1 DEF Changes
<1>4. clock'[d][r.id][r.id] > 0
  <2>1. CASE r.id = d
    BY <1>1, <1>2, <1>3, <2>1
  <2>2. CASE r.id # d
    <3>1. row[d] # NoRow /\ r.id = row[d].id
      BY <1>1, <2>2, RowTypes
    <3>2. clock[d][r.id][r.id] > 0
      BY <3>1 DEF KeepInv, OwnCounted
    <3> QED
      BY <1>1, <1>2, <3>2
  <2> QED
    BY <2>1, <2>2
<1>5. OwnCounted'
  <2>1. \A e \in Device : row'[e] # NoRow => clock'[e][row'[e].id][row'[e].id] > 0
    <3> SUFFICES ASSUME NEW e \in Device, e # d, row'[e] # NoRow
                 PROVE  clock'[e][row'[e].id][row'[e].id] > 0
      BY <1>3, <1>4
    <3>1. row'[e] = row[e] /\ row[e].id \in Device
      BY <1>3, RowTypes, RowType DEF KeepInv, CountInv
    <3>2. clock'[e][row[e].id] = clock[e][row[e].id]
      BY <1>3, <3>1
    <3> QED
      BY <3>1, <3>2 DEF KeepInv, OwnCounted
  <2> QED
    BY <1>1, <2>1 DEF KeepInv, OwnCounted
<1>6. SessionsCounted'
  <2> SUFFICES ASSUME NEW e \in Device, NEW s \in Undoable(e)', s.after # NoRow
               PROVE  clock'[e][s.after.id][s.after.id] > 0
    BY DEF SessionsCounted
  <2>1. s \in Undoable(e)
    BY SessionsKeptType DEF KeepInv, CountInv
  <2>2. clock[e][s.after.id][s.after.id] > 0
    BY <2>1 DEF KeepInv, SessionsCounted
  <2>3. s.after.id \in Device
    BY <2>1, SessionType DEF KeepInv, CountInv
  <2> QED
    BY <1>2, <2>2, <2>3
<1>7. PlansStand'
  <2> SUFFICES ASSUME NEW e \in Device, plan'[e] # NoPlan, plan'[e].row # NoRow
               PROVE  Stands(e)'
    BY DEF PlansStand
  <2>1. plan'[e] = plan[e]
    BY <1>1
  <2>2. CASE e # d
    <3>1. row'[e] = row[e] /\ clock'[e] = clock[e]
      BY <1>3, <2>2, ClockUntouched DEF KeepInv, CountInv
    <3> QED
      BY <2>1, <3>1, StandsElsewhere
  <2>3. CASE e = d
    <3>1. Stands(d)
      BY <2>1, <2>3 DEF KeepInv, PlansStand
    <3>2. plan[d].row \in Rows /\ plan[d].row.id \in Device
      BY <2>1, <2>3, PlanTypes, RowTypes DEF KeepInv, CountInv
    <3>3. CASE r.id # plan[d].row.id
      BY <1>3, <2>1, <2>3, <3>1, <3>3, StandsLater DEF KeepInv, CountInv
    <3>4. CASE r.id = plan[d].row.id
      <4>1. clock[d][r.id][r.id] > 0
        BY <3>1, <3>4 DEF Stands
      <4>2. row[d] \in Rows /\ r.id = row[d].id /\ r.rev = row[d].rev + 1
        BY <1>1, <1>2, <4>1 DEF Zero
      <4>3. row[d] = plan[d].row \/ plan[d].row.rev < row[d].rev
        BY <3>1, <3>4, <4>2 DEF Stands
      <4>4. plan[d].row.rev < r.rev
        BY <3>2, <4>2, <4>3 DEF Rows
      <4> QED
        BY <1>3, <2>1, <2>3, <3>1, <4>4, StandsLater DEF KeepInv, CountInv
    <3> QED
      BY <3>3, <3>4
  <2> QED
    BY <2>2, <2>3
<1> QED
  BY <1>5, <1>6, <1>7

LEMMA KeepUnderMerge ==
    ASSUME KeepInv, NEW d \in Device, TypeInv', ClocksGrow, MergeAt(d)
    PROVE  OwnCounted' /\ SessionsCounted' /\ PlansStand'
<1>0. TypeInv
  BY DEF KeepInv, CountInv
<1>1. plan[d] # NoPlan /\ MergeLeaves(d)
  BY <1>0, MergeShape
<1>2. PICK r \in Rows \cup {NoRow}, i \in Device, c \in Clocks,
           q \in SUBSET Conflicts, k \in SUBSET Decisions :
        /\ Leaves(d, r, i, c, q, k)
        /\ LeavesRow(d, r)
        /\ row[d] = NoRow /\ r # NoRow =>
             i = r.id /\ plan[d].package.clock[i] <= c[i]
  BY <1>1 DEF MergeLeaves
<1>3. /\ Changes(d, r, i, c, k) /\ packages' = packages /\ plan'[d] = NoPlan
      /\ \A e \in Device \ {d} : plan'[e] = plan[e]
      /\ Undoable(d)' = Undoable(d) \cup {NewSession(d, r, k)}
      /\ \A e \in Device \ {d} : Undoable(e)' = Undoable(e)
  BY <1>0, <1>2, LeavesChanges
<1>4. \A e, j \in Device : /\ clock[e][j] \in Clocks /\ clock'[e][j] \in Clocks
                           /\ \A x \in Device :
                                /\ clock[e][j][x] \in Nat /\ clock'[e][j][x] \in Nat
                                /\ clock[e][j][x] <= clock'[e][j][x]
  BY <1>0, ClockLater
<1>5. /\ row'[d] = r /\ clock'[d][i] = c
      /\ \A e \in Device \ {d} :
           row'[e] = row[e] /\ \A j \in Device : clock'[e][j] = clock[e][j]
  BY <1>3 DEF Changes
<1>6. ASSUME r # NoRow PROVE r.id \in Device /\ clock'[d][r.id][r.id] > 0
  <2>1. r.id \in Device
    BY <1>6, RowTypes
  <2>2. CASE row[d] # NoRow
    <3>1. r.id = row[d].id
      BY <1>2, <2>2 DEF LeavesRow
    <3>2. clock[d][r.id][r.id] > 0
      BY <2>2, <3>1 DEF KeepInv, OwnCounted
    <3> QED
      BY <1>4, <2>1, <3>2
  <2>3. CASE row[d] = NoRow
    <3>1. r = plan[d].package.row /\ i = r.id /\ plan[d].package.clock[i] <= c[i]
      BY <1>2, <1>6, <2>3, RowTypes DEF LeavesRow
    <3>2. plan[d].package \in packages
      BY <1>1 DEF KeepInv, CountInv, PlansKnown
    <3>3. plan[d].package.clock[i] > 0 /\ plan[d].package.clock[i] \in Nat
      BY <1>0, <3>1, <3>2, PackageType DEF KeepInv, OwnCounted
    <3>4. c[i] \in Nat
      BY DEF Clocks
    <3> QED
      BY <1>5, <2>1, <3>1, <3>3, <3>4
  <2> QED
    BY <2>2, <2>3
<1>7. OwnCounted'
  <2>1. \A e \in Device : row'[e] # NoRow => clock'[e][row'[e].id][row'[e].id] > 0
    <3> SUFFICES ASSUME NEW e \in Device, e # d, row'[e] # NoRow
                 PROVE  clock'[e][row'[e].id][row'[e].id] > 0
      BY <1>5, <1>6
    <3>1. row'[e] = row[e] /\ row[e].id \in Device
      BY <1>0, <1>5, RowTypes, RowType
    <3>2. clock'[e][row[e].id] = clock[e][row[e].id]
      BY <1>5, <3>1
    <3> QED
      BY <3>1, <3>2 DEF KeepInv, OwnCounted
  <2> QED
    BY <1>3, <2>1 DEF KeepInv, OwnCounted
<1>8. SessionsCounted'
  <2> SUFFICES ASSUME NEW e \in Device, NEW s \in Undoable(e)', s.after # NoRow
               PROVE  clock'[e][s.after.id][s.after.id] > 0
    BY DEF SessionsCounted
  <2>1. CASE s \in Undoable(e)
    <3>1. clock[e][s.after.id][s.after.id] > 0
      BY <2>1 DEF KeepInv, SessionsCounted
    <3>2. s.after.id \in Device
      BY <1>0, <2>1, SessionType
    <3> QED
      BY <1>4, <3>1, <3>2
  <2>2. CASE e = d /\ s = NewSession(d, r, k)
    <3>1. s.after = r
      BY <2>2 DEF NewSession
    <3> QED
      BY <1>6, <2>2, <3>1
  <2> QED
    BY <1>3, <2>1, <2>2
<1>9. PlansStand'
  <2> SUFFICES ASSUME NEW e \in Device, plan'[e] # NoPlan, plan'[e].row # NoRow
               PROVE  Stands(e)'
    BY DEF PlansStand
  <2>1. e # d /\ plan'[e] = plan[e]
    BY <1>3
  <2>2. row'[e] = row[e] /\ clock'[e] = clock[e]
    BY <1>0, <1>5, <2>1, ClockUntouched
  <2> QED
    BY <2>1, <2>2, StandsElsewhere
<1> QED
  BY <1>7, <1>8, <1>9

\* Steps that write no row and no clock.
LEMMA KeepAtRest ==
    ASSUME KeepInv, TypeInv', ClocksGrow, clock' = clock, SessionsKept,
           \A e \in Device : row'[e] = row[e] \/ row'[e] = NoRow,
           packages' = packages,
           \A e \in Device : plan'[e] # NoPlan => plan'[e] = plan[e]
    PROVE  OwnCounted' /\ SessionsCounted' /\ PlansStand'
<1>0. TypeInv
  BY DEF KeepInv, CountInv
<1>1. OwnCounted'
  BY DEF KeepInv, OwnCounted
<1>2. SessionsCounted'
  BY <1>0, SessionsKeptType DEF KeepInv, SessionsCounted
<1>3. PlansStand'
  <2> SUFFICES ASSUME NEW e \in Device, plan'[e] # NoPlan, plan'[e].row # NoRow
               PROVE  Stands(e)'
    BY DEF PlansStand
  <2>1. plan'[e] = plan[e] /\ clock'[e] = clock[e]
    OBVIOUS
  <2>2. CASE row'[e] = row[e]
    BY <2>1, <2>2, StandsElsewhere
  <2>3. CASE row'[e] = NoRow
    <3>1. Stands(e) /\ plan[e].row.id \in Device
      BY <1>0, <2>1, PlanTypes, RowTypes DEF KeepInv, PlansStand
    <3>2. row'[e].id # plan[e].row.id
      BY <2>3, <3>1, MergeAssumption DEF NoRow
    <3> QED
      BY <1>0, <2>1, <3>1, <3>2, StandsLater
  <2> QED
    BY <2>2, <2>3
<1> QED
  BY <1>1, <1>2, <1>3

LEMMA StandsAtPreview ==
    ASSUME KeepInv, NEW d \in Device, NEW p \in packages, Preview(d, p),
           row[d] # NoRow
    PROVE  Stands(d)'
<1> DEFINE r == row[d]
           q == [verdict |-> Verdict(d, p), package |-> p, row |-> r]
<1>0. TypeInv
  BY DEF KeepInv, CountInv
<1>1. plan'[d] = q /\ row' = row /\ clock' = clock
  BY <1>0 DEF Preview, TypeInv, TypeOK
<1>2. q.verdict = Verdict(d, p) /\ q.package = p /\ q.row = r
  OBVIOUS
<1> HIDE DEF q
<1>3. clock[d][r.id][r.id] > 0
  BY DEF KeepInv, OwnCounted
<1>4. Verdict(d, p) = "kept" => Covers(clock[d][r.id], p.clock)
  BY DEF Verdict
<1>5. Verdict(d, p) = "forward" => Covers(p.clock, clock[d][r.id])
  BY DEF Verdict
<1> QED
  BY <1>1, <1>2, <1>3, <1>4, <1>5 DEF Stands

LEMMA KeepStep ==
    ASSUME KeepInv, [Next]_vars
    PROVE  KeepInv'
<1>0. TypeInv /\ CountInv' /\ TypeInv' /\ ClocksGrow
  BY CountStep DEF KeepInv, CountInv
<1>1. CASE UNCHANGED vars
  <2>1. SessionsKept /\ clock' = clock /\ packages' = packages
        /\ row' = row /\ plan' = plan
    BY <1>1 DEF vars, SessionsKept
  <2> QED
    BY <1>0, <2>1, KeepAtRest DEF KeepInv
<1>2. CASE Next
  <2>1. PICK d \in Device :
          \/ /\ SessionsKept /\ conflicts' \in [Device -> SUBSET Conflicts]
             /\ Captures(d) \/ Overwrites(d) \/ Clears(d) \/ Rests(d)
          \/ Export(d)
          \/ \E p \in packages : Preview(d, p)
          \/ MergeAt(d)
    BY <1>0, <1>2, Kinds DEF Next
  <2>2. CASE SessionsKept /\ (Captures(d) \/ Overwrites(d))
    BY <1>0, <2>2, KeepUnderWrite DEF KeepInv
  <2>3. CASE MergeAt(d)
    BY <1>0, <2>3, KeepUnderMerge DEF KeepInv
  <2>4. CASE SessionsKept /\ (Clears(d) \/ Rests(d))
    <3>1. /\ clock' = clock /\ packages' = packages
          /\ \A e \in Device : plan'[e] # NoPlan => plan'[e] = plan[e]
          /\ \A e \in Device : row'[e] = row[e] \/ row'[e] = NoRow
      BY <1>0, <2>4 DEF Clears, Rests, TypeInv, TypeOK
    <3> QED
      BY <1>0, <2>4, <3>1, KeepAtRest DEF KeepInv
  <2>5. CASE Export(d)
    <3>1. /\ packages' = packages \cup {Holds(d)} /\ row[d] # NoRow
          /\ UNCHANGED <<row, clock, plan, sessions>>
      BY <2>5 DEF Export
    <3>2. Holds(d).clock[Holds(d).row.id] > 0
      BY <1>0, <3>1, HoldsType DEF KeepInv, OwnCounted
    <3>3. OwnCounted'
      BY <3>1, <3>2 DEF KeepInv, OwnCounted
    <3>4. SessionsCounted' /\ PlansStand'
      BY <3>1 DEF KeepInv, SessionsCounted, PlansStand, Undoable, Stands
    <3> QED
      BY <1>0, <3>3, <3>4 DEF KeepInv
  <2>6. ASSUME NEW p \in packages, Preview(d, p) PROVE KeepInv'
    <3>1. /\ UNCHANGED <<row, clock, packages, sessions>>
          /\ \A e \in Device \ {d} : plan'[e] = plan[e]
          /\ plan'[d] # NoPlan /\ plan'[d].row = row[d]
      BY <1>0, <2>6 DEF Preview, TypeInv, TypeOK, NoPlan
    <3>2. OwnCounted' /\ SessionsCounted'
      BY <3>1 DEF KeepInv, OwnCounted, SessionsCounted, Undoable
    <3>3. PlansStand'
      <4> SUFFICES ASSUME NEW e \in Device, plan'[e] # NoPlan,
                          plan'[e].row # NoRow
                   PROVE  Stands(e)'
        BY DEF PlansStand
      <4>1. CASE e = d
        BY <2>6, <3>1, <4>1, StandsAtPreview
      <4>2. CASE e # d
        BY <1>0, <3>1, <4>2, StandsElsewhere
      <4> QED
        BY <4>1, <4>2
    <3> QED
      BY <1>0, <3>2, <3>3 DEF KeepInv
  <2> QED
    BY <2>1, <2>2, <2>3, <2>4, <2>5, <2>6
<1> QED
  BY <1>1, <1>2

-----------------------------------------------------------------------------
\* What is known of a row, where no merge strayed from its plan.

\* A row with its clock and the decisions it was made over.
View(r, c, k) == [row |-> r, clock |-> c, known |-> k]
Views == packages \cup {Holds(d) : d \in {e \in Device : row[e] # NoRow}}

\* The clock of a view counts every decision the view takes into account.
Dated(v) == \A k \in v.known : k.row = v.row.id /\ k.count <= v.clock[k.by]

\* What one view of a row knows and the clock of another counts, the other
\* knows.
Agree(s, t) == s.row.id = t.row.id =>
                  \A k \in s.known : k.count <= t.clock[k.by] => k \in t.known

Fits(w) == Dated(w) /\ \A v \in Views : Agree(w, v) /\ Agree(v, w)

ViewsAgree == \A v \in Views : Fits(v)
Absent == \A d \in Device : row[d] = NoRow => known[d] = {}

\* While a row is what a merge left, its device wrote nothing since.
SessionsHold ==
    \A d \in Device : \A s \in Undoable(d) :
        /\ s.after.id = row[d].id => s.after.rev <= row[d].rev
        /\ s.before # s.after /\ row[d] = s.after => OwnWrites(d) \subseteq s.known

Settled == ViewsAgree /\ Absent /\ SessionsHold

FullInv == KeepInv /\ (~strayed => Settled)

LEMMA ViewFields ==
    ASSUME NEW r, NEW c, NEW k
    PROVE  /\ View(r, c, k).row = r /\ View(r, c, k).clock = c
           /\ View(r, c, k).known = k
BY DEF View

LEMMA ViewType ==
    ASSUME CountInv, NEW v \in Views
    PROVE  /\ v \in Packages /\ v.row \in Rows /\ v.row.id \in Device
           /\ v.clock \in Clocks /\ v.known \subseteq Decisions
           /\ \A e \in Device : v.clock[e] \in Nat
           /\ \A e \in Device : v.clock[e] <= clock[e][v.row.id][e]
<1>1. v \in Packages
  BY PackageType, HoldsType DEF Views, CountInv
<1>2. v.row \in Rows /\ v.clock \in Clocks /\ v.known \subseteq Decisions
  BY <1>1 DEF Packages
<1>3. v.row.id \in Device /\ \A e \in Device : v.clock[e] \in Nat
  BY <1>2 DEF Rows, Clocks
<1>4. \A e \in Device : v.clock[e] <= clock[e][v.row.id][e]
  <2>1. CASE v \in packages
    BY <2>1 DEF CountInv, Bounded
  <2>2. ASSUME NEW d \in Device, row[d] # NoRow, v = Holds(d)
        PROVE  \A e \in Device : v.clock[e] <= clock[e][v.row.id][e]
    <3>1. v.row = row[d] /\ v.clock = clock[d][row[d].id] /\ row[d].id \in Device
      BY <2>2, HoldsType DEF CountInv
    <3> QED
      BY <3>1 DEF CountInv, NobodyKnowsMore
  <2> QED
    BY <2>1, <2>2 DEF Views
<1> QED
  BY <1>1, <1>2, <1>3, <1>4

LEMMA FitsAs ==
    ASSUME NEW a, Fits(a), NEW r, r.id = a.row.id
    PROVE  Fits(View(r, a.clock, a.known))
BY ViewFields DEF Fits, Dated, Agree

LEMMA DecisionParts ==
    ASSUME NEW k \in Decisions
    PROVE  k.by \in Device /\ k.count \in Nat /\ k.row \in Device
BY DEF Decisions

\* What two views of a row know together fits what their clocks count together.
LEMMA JoinFits ==
    ASSUME CountInv, ViewsAgree, NEW a \in Views, NEW b \in Views,
           a.row.id = b.row.id, NEW r, r.id = a.row.id
    PROVE  Fits(View(r, Join(a.clock, b.clock), a.known \cup b.known))
<1> DEFINE c == Join(a.clock, b.clock)
           w == View(r, c, a.known \cup b.known)
<1>1. /\ a.clock \in Clocks /\ b.clock \in Clocks
      /\ a.known \subseteq Decisions /\ b.known \subseteq Decisions
      /\ \A e \in Device : a.clock[e] \in Nat /\ b.clock[e] \in Nat
  BY ViewType
<1>2. \A e \in Device : /\ a.clock[e] <= c[e] /\ b.clock[e] <= c[e]
                        /\ c[e] \in {a.clock[e], b.clock[e]} /\ c[e] \in Nat
  BY <1>1, JoinProperties
<1>3. w.row = r /\ w.clock = c /\ w.known = a.known \cup b.known
  BY ViewFields
<1> HIDE DEF w, c
<1>4. Fits(a) /\ Fits(b)
  BY DEF ViewsAgree
<1>5. Dated(w)
  <2> SUFFICES ASSUME NEW k \in w.known
               PROVE  k.row = w.row.id /\ k.count <= w.clock[k.by]
    BY DEF Dated
  <2>1. k.by \in Device /\ k.count \in Nat
    BY <1>1, <1>3, DecisionParts
  <2>2. k.row = r.id /\ (k.count <= a.clock[k.by] \/ k.count <= b.clock[k.by])
    BY <1>3, <1>4 DEF Fits, Dated
  <2> QED
    BY <1>1, <1>2, <1>3, <2>1, <2>2
<1>6. \A v \in Views : Agree(w, v)
  BY <1>3, <1>4 DEF Fits, Agree
<1>7. ASSUME NEW v \in Views PROVE Agree(v, w)
  <2> SUFFICES ASSUME v.row.id = w.row.id, NEW k \in v.known,
                      k.count <= w.clock[k.by]
               PROVE  k \in w.known
    BY DEF Agree
  <2>1. k.by \in Device
    BY ViewType, DecisionParts
  <2>2. k.count <= a.clock[k.by] \/ k.count <= b.clock[k.by]
    BY <1>2, <1>3, <2>1
  <2>3. Agree(v, a) /\ Agree(v, b)
    BY <1>4 DEF Fits
  <2> QED
    BY <1>3, <2>2, <2>3 DEF Agree
<1> QED
  BY <1>5, <1>6, <1>7 DEF Fits, w, c

\* Device d counts a write of its own, and perhaps a decision with it.
LEMMA RaisedFits ==
    ASSUME CountInv, ViewsAgree, NEW d \in Device, NEW a, Fits(a),
           a.clock \in Clocks, a.known \subseteq Decisions, a.row.id \in Device,
           a.clock[d] = clock[d][a.row.id][d],
           NEW r, r.id = a.row.id,
           NEW c \in Clocks, clock[d][a.row.id][d] < c[d],
           \A e \in Device \ {d} : c[e] = a.clock[e],
           NEW k, a.known \subseteq k,
           \A x \in k : \/ x \in a.known
                        \/ x.by = d /\ x.row = r.id /\ x.count = c[d]
    PROVE  Fits(View(r, c, k))
<1> DEFINE w == View(r, c, k)
<1>1. w.row = r /\ w.clock = c /\ w.known = k
  BY ViewFields
<1> HIDE DEF w
<1>2. /\ \A e \in Device : a.clock[e] \in Nat /\ c[e] \in Nat
      /\ clock[d][a.row.id][d] \in Nat
  BY ClockNat DEF Clocks, CountInv
<1>3. Dated(w)
  <2> SUFFICES ASSUME NEW x \in k PROVE x.row = r.id /\ x.count <= c[x.by]
    BY <1>1 DEF Dated
  <2>1. CASE x \in a.known
    <3>1. x.row = r.id /\ x.count <= a.clock[x.by]
      BY <2>1 DEF Fits, Dated
    <3>2. x.by \in Device /\ x.count \in Nat
      BY <2>1, DecisionParts
    <3> QED
      BY <1>2, <3>1, <3>2
  <2>2. CASE x.by = d /\ x.row = r.id /\ x.count = c[d]
    BY <1>2, <2>2
  <2> QED
    BY <2>1, <2>2
<1>4. ASSUME NEW v \in Views PROVE Agree(w, v)
  <2> SUFFICES ASSUME r.id = v.row.id, NEW x \in k, x.count <= v.clock[x.by]
               PROVE  x \in v.known
    BY <1>1 DEF Agree
  <2>1. CASE x \in a.known
    BY <2>1 DEF Fits, Agree
  <2>2. CASE x.by = d /\ x.count = c[d]
    <3>1. v.clock[d] <= clock[d][r.id][d] /\ v.clock[d] \in Nat
      BY ViewType
    <3> QED
      BY <1>2, <2>2, <3>1
  <2> QED
    BY <2>1, <2>2
<1>5. ASSUME NEW v \in Views PROVE Agree(v, w)
  <2> SUFFICES ASSUME v.row.id = r.id, NEW x \in v.known, x.count <= c[x.by]
               PROVE  x \in k
    BY <1>1 DEF Agree
  <2>1. x.by \in Device /\ x.count \in Nat
    BY ViewType, DecisionParts
  <2>2. x.count <= v.clock[x.by]
    BY DEF ViewsAgree, Fits, Dated
  <2>3. CASE x.by = d
    <3>1. v.clock[d] <= clock[d][r.id][d] /\ v.clock[d] \in Nat
      BY ViewType
    <3>2. x.count <= a.clock[d]
      BY <1>2, <2>1, <2>2, <2>3, <3>1
    <3> QED
      BY <2>3, <3>2 DEF Fits, Agree
  <2>4. CASE x.by # d
    <3>1. x.count <= a.clock[x.by]
      BY <2>1, <2>4
    <3> QED
      BY <3>1 DEF Fits, Agree
  <2> QED
    BY <2>3, <2>4
<1> QED
  BY <1>3, <1>4, <1>5 DEF Fits, w

\* The device's own view of its row.
LEMMA HoldsFits ==
    ASSUME CountInv, ViewsAgree, NEW d \in Device, row[d] # NoRow
    PROVE  /\ Holds(d) \in Views /\ Fits(Holds(d))
           /\ Holds(d).row = row[d] /\ Holds(d).known = known[d]
           /\ Holds(d).clock = clock[d][row[d].id]
           /\ row[d] \in Rows /\ row[d].id \in Device
           /\ clock[d][row[d].id] \in Clocks /\ known[d] \subseteq Decisions
<1>1. Holds(d) \in Views
  BY DEF Views
<1>2. /\ Holds(d).row = row[d] /\ Holds(d).known = known[d]
      /\ Holds(d).clock = clock[d][row[d].id]
      /\ row[d] \in Rows /\ row[d].id \in Device
  BY HoldsType DEF CountInv
<1>3. clock[d][row[d].id] \in Clocks /\ known[d] \subseteq Decisions
  BY <1>2, ClockType, RowType DEF CountInv
<1> QED
  BY <1>1, <1>2, <1>3 DEF ViewsAgree

\* What a merge leaves where it fits its plan.
Reached(d, r, c, k) ==
    /\ Fits(View(r, c, k))
    /\ \/ row[d] = NoRow /\ clock[d][r.id] = Zero
       \/ r = row[d] /\ \A x \in k : x.by = d /\ ~x.kept => x \in known[d]
       \/ row[d] \in Rows /\ r.id = row[d].id /\ r.rev = row[d].rev + 1

Reaches(d) ==
    \E r \in Rows, c \in Clocks, q \in SUBSET Conflicts, k \in SUBSET Decisions :
        Leaves(d, r, r.id, c, q, k) /\ Reached(d, r, c, k)

\* The row of d with the clocks joined and the decisions learnt.
LEMMA BaseFits ==
    ASSUME CountInv, ViewsAgree, NEW d \in Device, row[d] # NoRow,
           NEW p \in packages, NEW i, i = row[d].id
    PROVE  LET c == Joined(d, p, i)
               a == View(row[d], c, Learnt(d, p))
           IN  /\ Fits(a) /\ c \in Clocks /\ c[d] = clock[d][i][d]
               /\ Learnt(d, p) \in SUBSET Decisions
               /\ \A x \in Learnt(d, p) : x.by = d => x \in known[d]
<1> DEFINE h == Holds(d)
<1>1. /\ h \in Views /\ Fits(h) /\ h.row = row[d] /\ h.known = known[d]
      /\ h.clock = clock[d][i] /\ row[d].id \in Device
      /\ clock[d][i] \in Clocks /\ known[d] \subseteq Decisions
  BY HoldsFits
<1>2. p \in Views
  BY DEF Views
<1>3. /\ p.clock \in Clocks /\ p.known \subseteq Decisions /\ Fits(p)
      /\ \A e \in Device : p.clock[e] \in Nat /\ p.clock[e] <= clock[e][p.row.id][e]
  BY <1>2, ViewType DEF ViewsAgree
<1> HIDE DEF h
<1>4. CASE p.row.id # i
  <2>1. Joined(d, p, i) = h.clock /\ Learnt(d, p) = h.known
    BY <1>1, <1>4 DEF Joined, Learnt, OfItsRow
  <2>2. Fits(View(row[d], h.clock, h.known))
    BY <1>1, FitsAs
  <2> QED
    BY <1>1, <2>1, <2>2
<1>5. CASE p.row.id = i
  <2>1. /\ Joined(d, p, i) = Join(h.clock, p.clock)
        /\ Learnt(d, p) = h.known \cup p.known
    BY <1>1, <1>5 DEF Joined, Learnt, OfItsRow
  <2>2. Fits(View(row[d], Join(h.clock, p.clock), h.known \cup p.known))
    BY <1>1, <1>2, <1>5, JoinFits
  <2>3. /\ Join(h.clock, p.clock) \in Clocks
        /\ Join(h.clock, p.clock)[d] \in {h.clock[d], p.clock[d]}
        /\ h.clock[d] <= Join(h.clock, p.clock)[d]
    BY <1>1, <1>3, JoinProperties
  <2>4. p.clock[d] <= h.clock[d] /\ p.clock[d] \in Nat /\ h.clock[d] \in Nat
    BY <1>1, <1>3, <1>5 DEF Clocks
  <2>5. Join(h.clock, p.clock)[d] = h.clock[d]
    BY <2>3, <2>4
  <2>6. ASSUME NEW x \in p.known, x.by = d PROVE x \in known[d]
    <3>1. x.count <= p.clock[d] /\ x.count \in Nat
      BY <1>3, <2>6, DecisionParts DEF Fits, Dated
    <3>2. x.count <= h.clock[x.by]
      BY <2>4, <2>6, <3>1
    <3>3. Agree(p, h)
      BY <1>2, <1>1 DEF Fits
    <3> QED
      BY <1>1, <1>5, <3>2, <3>3 DEF Agree
  <2> QED
    BY <1>1, <1>3, <2>1, <2>2, <2>3, <2>5, <2>6
<1> QED
  BY <1>4, <1>5

\* A merge that fits its plan finds the row of the plan.
LEMMA FitsPlan ==
    ASSUME FullInv, NEW d \in Device, plan[d] # NoPlan,
           plan[d].verdict # "insert", row[d] = plan[d].row, ~strayed
    PROVE  /\ TypeInv /\ CountInv /\ Settled /\ ViewsAgree
           /\ row[d] # NoRow /\ row[d] \in Rows /\ row[d].id = plan[d].row.id
           /\ row[d].id \in Device
           /\ plan[d].package \in packages /\ plan[d].package \in Views
           /\ Stands(d)
<1>1. TypeInv /\ CountInv /\ Settled /\ ViewsAgree
  BY DEF FullInv, KeepInv, CountInv, Settled
<1>2. plan[d].row \in Rows /\ plan[d].row.id \in Device /\ plan[d].row # NoRow
  BY <1>1, PlanTypes, RowTypes
<1>3. plan[d].package \in packages /\ Stands(d)
  BY <1>2 DEF FullInv, KeepInv, CountInv, PlansKnown, PlansStand
<1> QED
  BY <1>1, <1>2, <1>3 DEF Views

LEMMA InsertReaches ==
    ASSUME FullInv, NEW d \in Device, Insert(d), ~strayed'
    PROVE  Reaches(d)
<1> DEFINE p == plan[d].package
           i == p.row.id
<1>1. /\ plan[d].verdict = "insert" /\ row[d] = NoRow
      /\ Leaves(d, p.row, i, Arrived(d, p), conflicts[d], p.known)
      /\ ~strayed /\ clock[d][i] = Zero
  BY DEF Insert, Strays
<1>2. plan[d] # NoPlan
  BY <1>1, VerdictPlanned
<1>3. TypeInv /\ CountInv /\ ViewsAgree
  BY <1>1 DEF FullInv, KeepInv, CountInv, Settled
<1>4. p \in Views
  BY <1>2, <1>3 DEF CountInv, PlansKnown, Views
<1>5. /\ p.row \in Rows /\ p.clock \in Clocks /\ p.known \subseteq Decisions
      /\ Fits(p)
  BY <1>3, <1>4, ViewType DEF ViewsAgree
<1>6. Arrived(d, p) = p.clock
  <2>1. \A e \in Device : Larger(Zero[e], p.clock[e]) = p.clock[e]
    BY <1>5 DEF Zero, Larger, Clocks
  <2>2. Join(Zero, p.clock) = [e \in Device |-> p.clock[e]]
    BY <2>1 DEF Join
  <2> QED
    BY <1>1, <1>5, <2>2 DEF Arrived, Clocks
<1>7. Fits(View(p.row, p.clock, p.known))
  BY <1>5, FitsAs
<1>8. Reached(d, p.row, p.clock, p.known)
  BY <1>1, <1>7 DEF Reached
<1>9. conflicts[d] \in SUBSET Conflicts
  BY <1>3, RowType
<1>10. Leaves(d, p.row, p.row.id, p.clock, conflicts[d], p.known)
  BY <1>1, <1>6
<1> HIDE DEF p
<1> QED
  BY <1>5, <1>8, <1>9, <1>10 DEF Reaches

\* Clocks one of which covers the other join to it.
LEMMA JoinCovered ==
    ASSUME NEW c \in Clocks, NEW k \in Clocks
    PROVE  /\ Covers(c, k) => Join(c, k) = c
           /\ Covers(k, c) => Join(c, k) = k
<1>1. ASSUME Covers(c, k) PROVE Join(c, k) = c
  <2>1. \A e \in Device : Larger(c[e], k[e]) = c[e]
    BY <1>1 DEF Covers, Larger, Clocks
  <2>2. Join(c, k) = [e \in Device |-> c[e]]
    BY <2>1 DEF Join
  <2> QED
    BY <2>2 DEF Clocks
<1>2. ASSUME Covers(k, c) PROVE Join(c, k) = k
  <2>1. \A e \in Device : Larger(c[e], k[e]) = k[e]
    BY <1>2 DEF Covers, Larger, Clocks
  <2>2. Join(c, k) = [e \in Device |-> k[e]]
    BY <2>1 DEF Join
  <2> QED
    BY <2>2 DEF Clocks
<1> QED
  BY <1>1, <1>2

LEMMA KeepReaches ==
    ASSUME FullInv, NEW d \in Device, Keep(d), ~strayed'
    PROVE  Reaches(d)
<1> DEFINE p == plan[d].package
           i == plan[d].row.id
           c == Joined(d, p, i)
           k == IF plan[d].verdict = "kept" THEN known[d] ELSE Learnt(d, p)
<1>1. /\ plan[d].verdict \in {"same", "kept", "rule mine", "answered"}
      /\ Leaves(d, row[d], i, c, conflicts[d], k)
      /\ ~strayed /\ row[d] = plan[d].row
  BY DEF Keep, Strays, RowChanged
<1>2. plan[d] # NoPlan /\ plan[d].verdict # "insert"
  BY <1>1, VerdictPlanned
<1>3. /\ TypeInv /\ CountInv /\ ViewsAgree
      /\ row[d] # NoRow /\ row[d] \in Rows /\ row[d].id = i
      /\ i \in Device /\ p \in packages /\ p \in Views /\ Stands(d)
  BY <1>1, <1>2, FitsPlan
<1>4. /\ Fits(View(row[d], c, Learnt(d, p))) /\ c \in Clocks
      /\ Learnt(d, p) \in SUBSET Decisions
      /\ \A x \in Learnt(d, p) : x.by = d => x \in known[d]
  BY <1>3, BaseFits
<1>5. conflicts[d] \in SUBSET Conflicts /\ known[d] \in SUBSET Decisions
  BY <1>3, RowType
<1>6. /\ Fits(Holds(d)) /\ Holds(d).row = row[d] /\ Holds(d).known = known[d]
      /\ Holds(d).clock = clock[d][i] /\ clock[d][i] \in Clocks
  BY <1>3, HoldsFits
<1>7. CASE plan[d].verdict = "kept"
  <2>1. p.clock \in Clocks
    BY <1>3, ViewType
  <2>2. Covers(clock[d][i], p.clock)
    BY <1>3, <1>7 DEF Stands
  <2>3. c = clock[d][i]
    BY <1>6, <2>1, <2>2, JoinCovered DEF Joined
  <2>4. Fits(View(row[d], Holds(d).clock, Holds(d).known))
    BY <1>6, FitsAs
  <2>5. Reached(d, row[d], clock[d][i], known[d])
    BY <1>6, <2>4 DEF Reached
  <2>6. Leaves(d, row[d], row[d].id, clock[d][i], conflicts[d], known[d])
    BY <1>1, <1>3, <1>7, <2>3
  <2> QED
    BY <1>3, <1>5, <1>6, <2>5, <2>6 DEF Reaches
<1>8. CASE plan[d].verdict # "kept"
  <2> HIDE DEF c
  <2>1. Reached(d, row[d], c, Learnt(d, p))
    BY <1>4 DEF Reached
  <2>2. Leaves(d, row[d], row[d].id, c, conflicts[d], Learnt(d, p))
    BY <1>1, <1>3, <1>8
  <2> QED
    BY <1>3, <1>4, <1>5, <2>1, <2>2 DEF Reaches
<1> QED
  BY <1>7, <1>8

LEMMA DeferReaches ==
    ASSUME FullInv, NEW d \in Device, Defer(d), ~strayed'
    PROVE  Reaches(d)
<1> DEFINE i == plan[d].row.id
           q == conflicts[d] \cup {Conflict(d, "open")}
<1>1. /\ plan[d].verdict = "conflict"
      /\ Leaves(d, row[d], i, clock[d][i], q, known[d])
      /\ ~strayed /\ row[d] = plan[d].row
  BY DEF Defer, Pending, Strays, RowChanged
<1>2. plan[d] # NoPlan /\ plan[d].verdict # "insert"
  BY <1>1, VerdictPlanned
<1>3. /\ TypeInv /\ CountInv /\ ViewsAgree
      /\ row[d] # NoRow /\ row[d] \in Rows /\ row[d].id = i
  BY <1>1, <1>2, FitsPlan
<1>4. q \in SUBSET Conflicts /\ known[d] \in SUBSET Decisions
  BY <1>2, <1>3, AnsweredType, RowType
<1>5. /\ Fits(Holds(d)) /\ Holds(d).row = row[d] /\ Holds(d).known = known[d]
      /\ Holds(d).clock = clock[d][i] /\ clock[d][i] \in Clocks
  BY <1>3, HoldsFits
<1>6. Fits(View(row[d], Holds(d).clock, Holds(d).known))
  BY <1>5, FitsAs
<1>7. Reached(d, row[d], clock[d][i], known[d])
  BY <1>5, <1>6 DEF Reached
<1>8. Leaves(d, row[d], row[d].id, clock[d][i], q, known[d])
  BY <1>1, <1>3
<1> HIDE DEF q
<1> QED
  BY <1>3, <1>4, <1>5, <1>7, <1>8 DEF Reaches

\* A write of d over the base of a merge, with a decision x or with none.
LEMMA RaisedBase ==
    ASSUME CountInv, ViewsAgree, NEW d \in Device, row[d] # NoRow,
           NEW p \in packages, NEW i, i = row[d].id,
           NEW r, r.id = i, NEW c \in Clocks,
           Joined(d, p, i)[d] < c[d],
           \A e \in Device \ {d} : c[e] = Joined(d, p, i)[e],
           NEW x \in SUBSET Decisions,
           \A y \in x : y.by = d /\ y.row = i /\ y.count = c[d]
    PROVE  Fits(View(r, c, Learnt(d, p) \cup x))
<1> DEFINE j == Joined(d, p, i)
           a == View(row[d], j, Learnt(d, p))
<1>1. /\ Fits(a) /\ j \in Clocks /\ j[d] = clock[d][i][d]
      /\ Learnt(d, p) \in SUBSET Decisions
  BY BaseFits
<1>2. a.row = row[d] /\ a.clock = j /\ a.known = Learnt(d, p)
  BY ViewFields
<1>3. row[d].id \in Device
  BY HoldsFits
<1> HIDE DEF a, j
<1>4. /\ j[d] < c[d] /\ \A e \in Device \ {d} : c[e] = j[e]
  BY DEF j
<1> DEFINE k == Learnt(d, p) \cup x
<1>5. /\ a.known \subseteq k
      /\ \A y \in k : \/ y \in a.known
                      \/ y.by = d /\ y.row = r.id /\ y.count = c[d]
  BY <1>2
<1>6. /\ a.clock \in Clocks /\ a.known \subseteq Decisions /\ a.row.id \in Device
      /\ a.clock[d] = clock[d][a.row.id][d] /\ r.id = a.row.id
      /\ clock[d][a.row.id][d] < c[d]
      /\ \A e \in Device \ {d} : c[e] = a.clock[e]
  BY <1>1, <1>2, <1>3, <1>4
<1> HIDE DEF k
<1>7. Fits(View(r, c, k))
  BY <1>1, <1>5, <1>6, RaisedFits
<1> QED
  BY <1>7 DEF k

LEMMA DecideMineReaches ==
    ASSUME FullInv, NEW d \in Device, DecideMine(d), ~strayed'
    PROVE  Reaches(d)
<1> DEFINE p == plan[d].package
           i == plan[d].row.id
           j == Joined(d, p, i)
           c == Decisive(d, p, i)
           x == Decision(d, i, c, TRUE)
           k == Learnt(d, p) \cup {x}
           q == Answered(d, "mine")
<1>1. /\ plan[d].verdict = "conflict" /\ Leaves(d, row[d], i, c, q, k)
      /\ ~strayed /\ row[d] = plan[d].row
  BY DEF DecideMine, Strays, RowChanged
<1>2. plan[d] # NoPlan /\ plan[d].verdict # "insert"
  BY <1>1, VerdictPlanned
<1>3. /\ TypeInv /\ CountInv /\ ViewsAgree
      /\ row[d] # NoRow /\ row[d] \in Rows /\ row[d].id = i
      /\ i \in Device /\ p \in packages
  BY <1>1, <1>2, FitsPlan
<1>4. /\ j \in Clocks /\ c = [j EXCEPT ![d] = j[d] + 1]
      /\ c[d] = j[d] + 1 /\ c \in Clocks
  BY <1>2, <1>3, DecisiveCounts DEF Joins
<1>5. /\ Learnt(d, p) \in SUBSET Decisions
      /\ \A y \in Learnt(d, p) : y.by = d => y \in known[d]
  BY <1>3, BaseFits
<1>6. q \in SUBSET Conflicts
  BY <1>2, <1>3, AnsweredType
<1> HIDE DEF p, i, j, c, q
<1>7. /\ x \in Decisions /\ x.by = d /\ x.row = i /\ x.count = c[d]
      /\ x.kept = TRUE
  BY <1>3, <1>4 DEF Decision, Decisions, Clocks
<1>8. j[d] < c[d] /\ \A e \in Device \ {d} : c[e] = j[e]
  BY <1>4 DEF Clocks
<1> HIDE DEF x
<1>9. Fits(View(row[d], c, k))
  <2>1. {x} \in SUBSET Decisions
        /\ \A y \in {x} : y.by = d /\ y.row = i /\ y.count = c[d]
    BY <1>7
  <2>2. /\ Joined(d, p, i)[d] < c[d]
        /\ \A e \in Device \ {d} : c[e] = Joined(d, p, i)[e]
    BY <1>8 DEF j
  <2>3. PICK r : r = row[d]
    OBVIOUS
  <2>4. r.id = i /\ i = row[d].id
    BY <1>3, <2>3
  <2>5. Fits(View(r, c, Learnt(d, p) \cup {x}))
    BY <1>3, <1>4, <2>1, <2>2, <2>4, RaisedBase, ZenonT(40)
  <2> QED
    BY <2>3, <2>5
<1>10. \A y \in k : y.by = d /\ ~y.kept => y \in known[d]
  BY <1>5, <1>7
<1>11. k \in SUBSET Decisions
  BY <1>5, <1>7
<1> HIDE DEF k
<1>12. Reached(d, row[d], c, k)
  BY <1>9, <1>10 DEF Reached
<1>13. Leaves(d, row[d], row[d].id, c, q, k)
  BY <1>1, <1>3 DEF k, c, q, i, p, x
<1> QED
  BY <1>3, <1>4, <1>6, <1>11, <1>12, <1>13 DEF Reaches

LEMMA DecideValueReaches ==
    ASSUME FullInv, NEW d \in Device, NEW choice \in {"theirs", "typed"},
           NEW v \in Text, DecideValue(d, choice, v), ~strayed'
    PROVE  Reaches(d)
<1> DEFINE p == plan[d].package
           r == Rewritten(row[d], v, TRUE, row[d].source)
           j == Joined(d, p, r.id)
           c == Written(d, p, r)
           x == Decision(d, r.id, c, FALSE)
           k == Learnt(d, p) \cup {x}
           q == Answered(d, choice)
<1>1. /\ plan[d].verdict = "conflict" /\ Leaves(d, r, r.id, c, q, k)
      /\ ~strayed /\ row[d] = plan[d].row /\ r.id = plan[d].row.id
  BY DEF DecideValue, Strays, RowChanged
<1>2. plan[d] # NoPlan /\ plan[d].verdict # "insert"
  BY <1>1, VerdictPlanned
<1>3. /\ TypeInv /\ CountInv /\ ViewsAgree
      /\ row[d] # NoRow /\ p \in packages
  BY <1>1, <1>2, FitsPlan
<1>4. /\ row[d] \in Rows /\ r \in Rows /\ r.id = row[d].id /\ r.id \in Device
      /\ r.rev = row[d].rev + 1
  BY <1>1, <1>2, <1>3, WrittenLeaves
<1>5. q \in SUBSET Conflicts
  BY <1>2, <1>3, AnsweredType
<1>6. c = Counted(j, d, r.rev)
  BY DEF Written
<1> HIDE DEF r, q, p
<1>7. /\ j \in Clocks /\ Learnt(d, p) \in SUBSET Decisions
  BY <1>3, <1>4, BaseFits
<1> HIDE DEF j, c
<1>8. r.rev \in Nat
  BY <1>4 DEF Rows
<1>9. /\ c \in Clocks /\ c[d] > j[d]
      /\ \A e \in Device \ {d} : c[e] = j[e]
  BY <1>6, <1>7, <1>8, CountedProperties
<1>10. x \in Decisions /\ x.by = d /\ x.row = r.id /\ x.count = c[d]
  BY <1>4, <1>9 DEF Decision, Decisions, Clocks
<1> HIDE DEF x
<1>11. j[d] < c[d]
  BY <1>7, <1>9 DEF Clocks
<1>12. Fits(View(r, c, k))
  <2>1. {x} \in SUBSET Decisions
        /\ \A y \in {x} : y.by = d /\ y.row = r.id /\ y.count = c[d]
    BY <1>10
  <2>2. /\ Joined(d, p, r.id)[d] < c[d]
        /\ \A e \in Device \ {d} : c[e] = Joined(d, p, r.id)[e]
    BY <1>9, <1>11 DEF j
  <2> QED
    BY <1>3, <1>4, <1>9, <2>1, <2>2, RaisedBase
<1>13. k \in SUBSET Decisions
  BY <1>7, <1>10
<1>14. Reached(d, r, c, k)
  BY <1>4, <1>12 DEF Reached
<1>15. Leaves(d, r, r.id, c, q, k)
  BY <1>1 DEF r, c, q, x, p
<1> HIDE DEF k
<1> QED
  BY <1>4, <1>5, <1>9, <1>13, <1>14, <1>15 DEF Reaches

LEMMA TakeReaches ==
    ASSUME FullInv, NEW d \in Device, Take(d), ~strayed'
    PROVE  Reaches(d)
<1> DEFINE p == plan[d].package
           r == Rewritten(row[d], p.row.text, p.row.verified, row[d].source)
           j == Joined(d, p, r.id)
           c == Written(d, p, r)
           k == IF plan[d].verdict = "forward" /\ OfItsRow(d, p)
                THEN p.known ELSE Learnt(d, p)
<1>1. /\ plan[d].verdict \in {"forward", "rule theirs"}
      /\ Leaves(d, r, r.id, c, conflicts[d], k)
      /\ ~strayed /\ row[d] = plan[d].row /\ r.id = plan[d].row.id
  BY DEF Take, Strays, RowChanged
<1>2. plan[d] # NoPlan /\ plan[d].verdict # "insert"
  BY <1>1, VerdictPlanned
<1>3. /\ TypeInv /\ CountInv /\ ViewsAgree /\ row[d] = plan[d].row
      /\ row[d] # NoRow /\ p \in packages /\ p \in Views /\ Stands(d)
  BY <1>1, <1>2, FitsPlan
<1>4. p.row.text \in Text /\ p.row.verified \in BOOLEAN
  BY <1>2, <1>3, PlanTypes DEF Rows
<1>5. /\ row[d] \in Rows /\ r \in Rows /\ r.id = row[d].id /\ r.id \in Device
      /\ r.rev = row[d].rev + 1
  BY <1>1, <1>2, <1>3, <1>4, WrittenLeaves
<1>6. c = Counted(j, d, r.rev)
  BY DEF Written
<1> HIDE DEF r
<1>7. /\ j \in Clocks /\ j[d] = clock[d][r.id][d]
      /\ Learnt(d, p) \in SUBSET Decisions
  BY <1>3, <1>5, BaseFits
<1>8. r.rev \in Nat
  BY <1>5 DEF Rows
<1> HIDE DEF j, c
<1>9. /\ c \in Clocks /\ c[d] > j[d]
      /\ \A e \in Device \ {d} : c[e] = j[e]
  BY <1>6, <1>7, <1>8, CountedProperties
<1>10. j[d] < c[d]
  BY <1>7, <1>9 DEF Clocks
<1>11. /\ p.clock \in Clocks /\ p.known \subseteq Decisions /\ Fits(p)
  BY <1>3, ViewType DEF ViewsAgree
<1>12. conflicts[d] \in SUBSET Conflicts
  BY <1>3, RowType
<1>13. CASE plan[d].verdict = "forward" /\ OfItsRow(d, p)
  <2>1. p.row.id = r.id
    BY <1>5, <1>13 DEF OfItsRow
  <2>2. Covers(p.clock, clock[d][r.id])
    <3>1. row[d].id = plan[d].row.id /\ row[d].rev \in Nat
      BY <1>3, <1>5 DEF Rows
    <3> QED
      BY <1>3, <1>5, <1>13, <3>1 DEF Stands
  <2>3. clock[d][r.id] \in Clocks
    BY <1>3, <1>5, ClockType
  <2>4. j = p.clock
    BY <1>5, <1>11, <2>1, <2>2, <2>3, JoinCovered DEF j, Joined
  <2>5. Fits(View(r, c, p.known))
    <3> HIDE DEF p
    <3>1. /\ p.clock[d] = clock[d][p.row.id][d]
          /\ clock[d][p.row.id][d] < c[d]
          /\ \A e \in Device \ {d} : c[e] = p.clock[e]
          /\ p.row.id \in Device /\ r.id = p.row.id
      BY <1>5, <1>7, <1>9, <1>10, <2>1, <2>4
    <3> QED
      BY <1>3, <1>9, <1>11, <3>1, RaisedFits
  <2>6. Reached(d, r, c, p.known)
    BY <1>5, <2>5 DEF Reached
  <2>7. Leaves(d, r, r.id, c, conflicts[d], p.known)
    BY <1>1, <1>13
  <2> QED
    BY <1>5, <1>9, <1>11, <1>12, <2>6, <2>7 DEF Reaches
<1>14. CASE ~(plan[d].verdict = "forward" /\ OfItsRow(d, p))
  <2>1. Fits(View(r, c, Learnt(d, p) \cup {}))
    BY <1>3, <1>5, <1>9, <1>10, RaisedBase DEF j
  <2>2. Learnt(d, p) \cup {} = Learnt(d, p)
    OBVIOUS
  <2>3. Reached(d, r, c, Learnt(d, p))
    BY <1>5, <2>1, <2>2 DEF Reached
  <2>4. Leaves(d, r, r.id, c, conflicts[d], Learnt(d, p))
    BY <1>1, <1>14
  <2> QED
    BY <1>5, <1>7, <1>9, <1>12, <2>3, <2>4 DEF Reaches
<1> QED
  BY <1>13, <1>14

LEMMA MergeReaches ==
    ASSUME FullInv, NEW d \in Device, MergeAt(d), ~strayed'
    PROVE  Reaches(d)
BY InsertReaches, KeepReaches, TakeReaches, DecideMineReaches, DeferReaches,
   DecideValueReaches DEF MergeAt

-----------------------------------------------------------------------------
\* A step keeps what is settled, where no merge strays.

LEMMA ViewsAfter ==
    ASSUME CountInv, NEW d \in Device, NEW r \in Rows, NEW c, NEW k,
           Changes(d, r, r.id, c, k), packages' = packages
    PROVE  \A v \in Views' : v \in Views \/ v = View(r, c, k)
<1> SUFFICES ASSUME NEW v \in Views', v \notin packages
             PROVE  v \in Views \/ v = View(r, c, k)
  BY DEF Views
<1>1. PICK e \in Device : row'[e] # NoRow /\ v = Holds(e)'
  BY DEF Views
<1>2. v = View(row'[e], clock'[e][row'[e].id], known'[e])
  BY <1>1 DEF Holds, View
<1>3. CASE e = d
  BY <1>2, <1>3 DEF Changes
<1>4. CASE e # d
  <2>1. row'[e] = row[e] /\ known'[e] = known[e] /\ row[e] # NoRow
    BY <1>1, <1>4 DEF Changes
  <2>2. row[e].id \in Device
    BY <2>1, HoldsType DEF CountInv
  <2>3. clock'[e][row[e].id] = clock[e][row[e].id]
    BY <1>4, <2>2 DEF Changes
  <2>4. v = Holds(e)
    BY <1>2, <2>1, <2>3 DEF Holds, View
  <2> QED
    BY <2>1, <2>4 DEF Views
<1> QED
  BY <1>3, <1>4

LEMMA AgreeAfter ==
    ASSUME ViewsAgree, NEW w, Fits(w),
           \A v \in Views' : v \in Views \/ v = w
    PROVE  ViewsAgree'
<1>1. Agree(w, w)
  BY DEF Agree
<1>2. \A u, v \in Views' : Agree(u, v)
  BY <1>1 DEF ViewsAgree, Fits
<1>3. \A v \in Views' : Dated(v)
  BY DEF ViewsAgree, Fits
<1> QED
  BY <1>2, <1>3 DEF ViewsAgree, Fits

LEMMA AgreeSame ==
    ASSUME ViewsAgree, Views' \subseteq Views
    PROVE  ViewsAgree'
BY DEF ViewsAgree, Fits

\* The row of d becomes r: a first one, the same, or the next.
Follows(d, r, k) ==
    \/ row[d] = NoRow /\ clock[d][r.id] = Zero
    \/ r = row[d] /\ \A x \in k : x.by = d /\ ~x.kept => x \in known[d]
    \/ row[d] \in Rows /\ r.id = row[d].id /\ r.rev = row[d].rev + 1

LEMMA SessionsHoldAfter ==
    ASSUME KeepInv, SessionsHold, NEW d \in Device, NEW r \in Rows, NEW k,
           row'[d] = r, known'[d] = k, Follows(d, r, k),
           \A e \in Device \ {d} : /\ row'[e] = row[e] /\ known'[e] = known[e]
                                   /\ Undoable(e)' \subseteq Undoable(e),
           \A s \in Undoable(d)' : s \in Undoable(d) \/ (s.after = r /\ s.known = k)
    PROVE  SessionsHold'
<1>0. TypeInv /\ r.id \in Device /\ r.rev \in Nat
  BY DEF KeepInv, CountInv, Rows
<1> SUFFICES ASSUME NEW e \in Device, NEW s \in Undoable(e)'
             PROVE  /\ s.after.id = row'[e].id => s.after.rev <= row'[e].rev
                    /\ s.before # s.after /\ row'[e] = s.after =>
                         {x \in known'[e] : x.by = e /\ ~x.kept} \subseteq s.known
  BY DEF SessionsHold, OwnWrites
<1>1. CASE e # d
  BY <1>1 DEF SessionsHold, OwnWrites
<1>2. CASE e = d /\ s \notin Undoable(d)
  BY <1>0, <1>2
<1>3. CASE e = d /\ s \in Undoable(d)
  <2>1. /\ s.after \in Rows \cup {NoRow}
        /\ s.after # NoRow => s.after.id \in Device
        /\ s.after # NoRow => clock[d][s.after.id][s.after.id] > 0
    BY <1>0, <1>3, SessionType DEF KeepInv, SessionsCounted
  <2>2. s.after = NoRow => s.after.id # r.id
    BY <1>0, MergeAssumption DEF NoRow
  <2>3. CASE row[d] = NoRow /\ clock[d][r.id] = Zero
    <3>1. clock[d][r.id][r.id] = 0
      BY <1>0, <2>3 DEF Zero
    <3>2. s.after.id # r.id
      BY <2>1, <2>2, <3>1
    <3> QED
      BY <1>3, <3>2
  <2>4. CASE r = row[d] /\ \A x \in k : x.by = d /\ ~x.kept => x \in known[d]
    <3>1. /\ s.after.id = row[d].id => s.after.rev <= row[d].rev
          /\ s.before # s.after /\ row[d] = s.after => OwnWrites(d) \subseteq s.known
      BY <1>3 DEF SessionsHold
    <3> QED
      BY <1>3, <2>4, <3>1 DEF OwnWrites
  <2>5. CASE row[d] \in Rows /\ r.id = row[d].id /\ r.rev = row[d].rev + 1
    <3>1. s.after.id = row[d].id => s.after.rev <= row[d].rev
      BY <1>3 DEF SessionsHold
    <3>2. s.after.rev \in Nat /\ row[d].rev \in Nat
      BY <2>1, <2>5 DEF Rows, NoRow
    <3>3. s.after.id = r.id => s.after.rev < r.rev
      BY <2>5, <3>1, <3>2
    <3> QED
      BY <1>0, <1>3, <3>2, <3>3
  <2> QED
    BY <2>3, <2>4, <2>5 DEF Follows
<1> QED
  BY <1>1, <1>2, <1>3

LEMMA SettledAfterMerge ==
    ASSUME FullInv, NEW d \in Device, MergeAt(d), ~strayed', ~strayed
    PROVE  Settled'
<1>0. /\ TypeInv /\ CountInv /\ KeepInv /\ ViewsAgree /\ Absent /\ SessionsHold
  BY DEF FullInv, KeepInv, CountInv, Settled
<1>1. PICK r \in Rows, c \in Clocks, q \in SUBSET Conflicts,
           k \in SUBSET Decisions :
        Leaves(d, r, r.id, c, q, k) /\ Reached(d, r, c, k)
  BY MergeReaches DEF Reaches
<1>2. r.id \in Device
  BY DEF Rows
<1>3. /\ Changes(d, r, r.id, c, k) /\ packages' = packages
      /\ Undoable(d)' = Undoable(d) \cup {NewSession(d, r, k)}
      /\ \A e \in Device \ {d} : Undoable(e)' = Undoable(e)
  BY <1>0, <1>1, <1>2, LeavesChanges
<1>4. /\ row'[d] = r /\ known'[d] = k
      /\ \A e \in Device \ {d} : row'[e] = row[e] /\ known'[e] = known[e]
  BY <1>3 DEF Changes
<1>5. ViewsAgree'
  BY <1>0, <1>1, <1>3, ViewsAfter, AgreeAfter DEF Reached
<1>6. Absent'
  BY <1>0, <1>4, RowTypes DEF Absent
<1>7. SessionsHold'
  <2>1. NewSession(d, r, k).after = r /\ NewSession(d, r, k).known = k
    BY DEF NewSession
  <2>2. Follows(d, r, k)
    BY <1>1 DEF Reached, Follows
  <2>3. /\ \A e \in Device \ {d} : /\ row'[e] = row[e] /\ known'[e] = known[e]
                                   /\ Undoable(e)' \subseteq Undoable(e)
        /\ \A s \in Undoable(d)' :
              s \in Undoable(d) \/ (s.after = r /\ s.known = k)
    BY <1>3, <1>4, <2>1
  <2> QED
    BY <1>0, <1>4, <2>2, <2>3, SessionsHoldAfter
<1> QED
  BY <1>5, <1>6, <1>7 DEF Settled

LEMMA SettledAfterWrite ==
    ASSUME FullInv, NEW d \in Device, Captures(d) \/ Overwrites(d),
           SessionsKept, ~strayed
    PROVE  Settled'
<1>0. /\ TypeInv /\ CountInv /\ KeepInv /\ ViewsAgree /\ Absent /\ SessionsHold
  BY DEF FullInv, KeepInv, CountInv, Settled
<1>1. PICK r \in Rows, c \in Clocks :
        /\ \/ row[d] = NoRow /\ r.id = d /\ clock[d][d] = Zero
           \/ row[d] \in Rows /\ r.id = row[d].id /\ r.rev = row[d].rev + 1
        /\ r.id \in Device
        /\ Changes(d, r, r.id, c, known[d] \cup {Decision(d, r.id, c, FALSE)})
        /\ clock[d][r.id][d] < c[d]
        /\ \A e \in Device \ {d} : c[e] = clock[d][r.id][e]
        /\ packages' = packages
  BY <1>0, WriteChanges, ZenonT(40)
<1> DEFINE x == Decision(d, r.id, c, FALSE)
           k == known[d] \cup {x}
<1>2. x \in Decisions /\ x.by = d /\ x.row = r.id /\ x.count = c[d]
  BY <1>1 DEF Decision, Decisions, Clocks
<1> HIDE DEF x
<1>3. ASSUME row[d] \in Rows, r.id = row[d].id
      PROVE  Fits(View(r, c, k))
  <2>1. row[d] # NoRow
    BY <1>3, RowTypes
  <2>2. /\ Fits(Holds(d)) /\ Holds(d).row = row[d] /\ Holds(d).known = known[d]
        /\ Holds(d).clock = clock[d][r.id] /\ clock[d][r.id] \in Clocks
        /\ known[d] \subseteq Decisions
    BY <1>0, <1>3, <2>1, HoldsFits
  <2>3. \A y \in k : \/ y \in known[d]
                     \/ y.by = d /\ y.row = r.id /\ y.count = c[d]
    BY <1>2
  <2> HIDE DEF k
  <2>4. PICK a : a = Holds(d)
    OBVIOUS
  <2>5. known[d] \subseteq k
    BY DEF k
  <2>6. /\ Fits(a) /\ a.clock \in Clocks /\ a.known \subseteq Decisions
        /\ a.row.id \in Device /\ a.clock[d] = clock[d][a.row.id][d]
        /\ r.id = a.row.id /\ clock[d][a.row.id][d] < c[d]
        /\ \A e \in Device \ {d} : c[e] = a.clock[e]
        /\ a.known \subseteq k
        /\ \A y \in k : \/ y \in a.known
                        \/ y.by = d /\ y.row = r.id /\ y.count = c[d]
    BY <1>1, <1>3, <2>2, <2>3, <2>4, <2>5
  <2> QED
    BY <1>0, <2>6, RaisedFits
<1>4. ASSUME row[d] = NoRow, r.id = d, clock[d][d] = Zero
      PROVE  Fits(View(r, c, k))
  <2>1. known[d] = {}
    BY <1>0, <1>4 DEF Absent
  <2>2. \A v \in Views : v.row.id # d
    <3> SUFFICES ASSUME NEW v \in Views, v.row.id = d PROVE FALSE
      OBVIOUS
    <3>1. v.clock[d] <= clock[d][d][d] /\ v.clock[d] \in Nat
      BY <1>0, ViewType
    <3>2. v.clock[d] > 0
      BY HoldsType, <1>0 DEF Views, KeepInv, OwnCounted
    <3> QED
      BY <1>4, <3>1, <3>2 DEF Zero
  <2>3. /\ View(r, c, k).row = r /\ View(r, c, k).clock = c
        /\ View(r, c, k).known = {x}
    BY <2>1, ViewFields
  <2>4. c[d] \in Nat
    BY DEF Clocks
  <2> DEFINE w == View(r, c, k)
  <2> HIDE DEF k, w
  <2>5. Dated(w)
    BY <1>2, <2>3, <2>4 DEF Dated, w
  <2>6. \A v \in Views : Agree(w, v) /\ Agree(v, w)
    BY <1>4, <2>2, <2>3 DEF Agree, w
  <2> QED
    BY <2>5, <2>6 DEF Fits, w
<1>5. Fits(View(r, c, k))
  BY <1>1, <1>3, <1>4
<1>6. Changes(d, r, r.id, c, k)
  BY <1>1 DEF x
<1> HIDE DEF k
<1>7. ViewsAgree'
  BY <1>0, <1>1, <1>5, <1>6, ViewsAfter, AgreeAfter
<1>8. /\ row'[d] = r /\ known'[d] = k
      /\ \A e \in Device \ {d} : row'[e] = row[e] /\ known'[e] = known[e]
  BY <1>6 DEF Changes
<1>9. Absent'
  BY <1>0, <1>8, RowTypes DEF Absent
<1>10. SessionsHold'
  <2>1. Follows(d, r, k)
    BY <1>1 DEF Follows
  <2>2. \A e \in Device : Undoable(e)' \subseteq Undoable(e)
    BY <1>0, SessionsKeptType
  <2>3. /\ \A e \in Device \ {d} : /\ row'[e] = row[e] /\ known'[e] = known[e]
                                   /\ Undoable(e)' \subseteq Undoable(e)
        /\ \A s \in Undoable(d)' :
              s \in Undoable(d) \/ (s.after = r /\ s.known = k)
    BY <1>8, <2>2
  <2> QED
    BY <1>0, <1>8, <2>1, <2>3, SessionsHoldAfter
<1> QED
  BY <1>7, <1>9, <1>10 DEF Settled

LEMMA SettledElsewhere ==
    ASSUME FullInv, ~strayed, Views' \subseteq Views, SessionsKept,
           \A e \in Device :
              \/ row'[e] = row[e] /\ known'[e] = known[e]
              \/ row'[e] = NoRow /\ known'[e] = {}
    PROVE  Settled'
<1>0. /\ TypeInv /\ ViewsAgree /\ Absent /\ SessionsHold
  BY DEF FullInv, KeepInv, CountInv, Settled
<1>1. ViewsAgree'
  BY <1>0, AgreeSame
<1>2. Absent'
  BY <1>0 DEF Absent
<1>3. SessionsHold'
  <2> SUFFICES ASSUME NEW e \in Device, NEW s \in Undoable(e)'
               PROVE  /\ s.after.id = row'[e].id => s.after.rev <= row'[e].rev
                      /\ s.before # s.after /\ row'[e] = s.after =>
                           OwnWrites(e)' \subseteq s.known
    BY DEF SessionsHold
  <2>1. s \in Undoable(e)
    BY <1>0, SessionsKeptType
  <2>2. CASE row'[e] = row[e] /\ known'[e] = known[e]
    BY <1>0, <2>1, <2>2 DEF SessionsHold, OwnWrites
  <2>3. CASE row'[e] = NoRow /\ known'[e] = {}
    <3>1. /\ s.after # NoRow => s.after.id \in Device
          /\ s.before # s.after => s.after # NoRow
      BY <1>0, <2>1, SessionType DEF Fitting
    <3>2. row'[e].id = NoDevice /\ row'[e].rev = 0
      BY <2>3 DEF NoRow
    <3>3. s.after.id = row'[e].id => s.after = NoRow
      BY <3>1, <3>2, MergeAssumption
    <3>4. s.after = NoRow => s.after.rev <= row'[e].rev
      BY <3>2 DEF NoRow
    <3> QED
      BY <2>3, <3>1, <3>3, <3>4
  <2> QED
    BY <2>2, <2>3
<1> QED
  BY <1>1, <1>2, <1>3 DEF Settled

\* A view of the rows there were, where one row may have gone.
LEMMA ViewsStay ==
    ASSUME packages' = packages, clock' = clock,
           \A e \in Device : \/ row'[e] = row[e] /\ known'[e] = known[e]
                             \/ row'[e] = NoRow
    PROVE  Views' \subseteq Views
<1> SUFFICES ASSUME NEW v \in Views', v \notin packages PROVE v \in Views
  BY DEF Views
<1>1. PICK e \in Device : row'[e] # NoRow /\ v = Holds(e)'
  BY DEF Views
<1>2. row'[e] = row[e] /\ known'[e] = known[e]
  BY <1>1
<1>3. v = Holds(e)
  BY <1>1, <1>2 DEF Holds
<1> QED
  BY <1>1, <1>2, <1>3 DEF Views

LEMMA FullStep ==
    ASSUME FullInv, [Next]_vars
    PROVE  FullInv'
<1>0. TypeInv /\ KeepInv' /\ TypeInv'
  BY KeepStep DEF FullInv, KeepInv, CountInv
<1> SUFFICES ASSUME ~strayed' PROVE Settled'
  BY <1>0 DEF FullInv
<1>1. CASE UNCHANGED vars
  <2>1. /\ UNCHANGED <<packages, clock, row, known>> /\ SessionsKept /\ ~strayed
    BY <1>1 DEF vars, SessionsKept
  <2>2. Views' \subseteq Views
    BY <2>1, ViewsStay
  <2> QED
    BY <2>1, <2>2, SettledElsewhere
<1>2. CASE Next
  <2>1. PICK d \in Device :
          \/ /\ SessionsKept /\ conflicts' \in [Device -> SUBSET Conflicts]
             /\ Captures(d) \/ Overwrites(d) \/ Clears(d) \/ Rests(d)
          \/ Export(d)
          \/ \E p \in packages : Preview(d, p)
          \/ MergeAt(d)
    BY <1>0, <1>2, Kinds DEF Next
  <2>2. CASE SessionsKept /\ (Captures(d) \/ Overwrites(d))
    <3>1. ~strayed
      BY <1>0, <2>2, WriteChanges
    <3> QED
      BY <2>2, <3>1, SettledAfterWrite
  <2>3. CASE MergeAt(d)
    <3>1. ~strayed
      BY <2>3 DEF MergeAt, Insert, Keep, Take, DecideMine, Defer, DecideValue,
                  Strays
    <3> QED
      BY <2>3, <3>1, SettledAfterMerge
  <2>4. CASE SessionsKept /\ (Clears(d) \/ Rests(d))
    <3>1. /\ packages' = packages /\ clock' = clock /\ ~strayed
          /\ \A e \in Device : \/ row'[e] = row[e] /\ known'[e] = known[e]
                               \/ row'[e] = NoRow /\ known'[e] = {}
      BY <1>0, <2>4 DEF Clears, Rests, TypeInv, TypeOK
    <3>2. Views' \subseteq Views
      BY <3>1, ViewsStay
    <3> QED
      BY <2>4, <3>1, <3>2, SettledElsewhere
  <2>5. CASE Export(d)
    <3>1. /\ packages' = packages \cup {Holds(d)} /\ row[d] # NoRow /\ ~strayed
          /\ UNCHANGED <<row, clock, known, sessions>>
      BY <2>5 DEF Export
    <3>2. Views' \subseteq Views
      BY <3>1 DEF Views, Holds
    <3> QED
      BY <3>1, <3>2, SettledElsewhere DEF SessionsKept
  <2>6. ASSUME NEW p \in packages, Preview(d, p) PROVE Settled'
    <3>1. UNCHANGED <<row, clock, packages, known, sessions>> /\ ~strayed
      BY <2>6 DEF Preview
    <3>2. Views' \subseteq Views
      BY <3>1, ViewsStay
    <3> QED
      BY <3>1, <3>2, SettledElsewhere DEF SessionsKept
  <2> QED
    BY <2>1, <2>2, <2>3, <2>4, <2>5, <2>6
<1> QED
  BY <1>1, <1>2

LEMMA FullInit ==
    ASSUME Init PROVE FullInv
<1>1. /\ \A d \in Device : row[d] = NoRow /\ known[d] = {} /\ plan[d] = NoPlan
      /\ packages = {} /\ \A d \in Device : Undoable(d) = {}
  <2>1. 1..Len(<<>>) = {}
    OBVIOUS
  <2> QED
    BY <2>1 DEF Init, Undoable
<1>2. KeepInv
  BY <1>1, CountInit DEF KeepInv, OwnCounted, SessionsCounted, PlansStand
<1>3. Views = {}
  BY <1>1 DEF Views
<1>4. Settled
  BY <1>1, <1>3 DEF Settled, ViewsAgree, Absent, SessionsHold
<1> QED
  BY <1>2, <1>4 DEF FullInv

LEMMA FullInvariant == Spec => []FullInv
<1>1. Init => FullInv
  BY FullInit
<1>2. FullInv /\ [Next]_vars => FullInv'
  BY FullStep
<1> QED
  BY <1>1, <1>2, PTL DEF Spec

-----------------------------------------------------------------------------
\* What a merge and an undo lose.

(***************************************************************************)
(* A device whose clock counts a decision about its row has taken that     *)
(* decision into account, however many devices exchange packages in        *)
(* whatever order, with edits deferred, decided and undone between         *)
(* (_mergeVectors and _advanceDecisionVectors).                            *)
(***************************************************************************)
THEOREM CountsAreKnown == Spec => []CountedIsKnown
<1>1. FullInv => CountedIsKnown
  <2> SUFFICES ASSUME FullInv, ~strayed, NEW d \in Device, NEW e \in Device,
                      row[d] # NoRow, row[e].id = row[d].id,
                      NEW k \in known[e],
                      k.count <= clock[d][row[d].id][k.by]
               PROVE  k \in known[d]
    BY DEF CountedIsKnown
  <2>1. ViewsAgree /\ Absent
    BY DEF FullInv, Settled
  <2>2. row[e] # NoRow
    BY <2>1 DEF Absent
  <2>3. Holds(d) \in Views /\ Holds(e) \in Views
    BY <2>2 DEF Views
  <2>4. Agree(Holds(e), Holds(d))
    BY <2>1, <2>3 DEF ViewsAgree, Fits
  <2> QED
    BY <2>4 DEF Agree, Holds
<1> QED
  BY <1>1, FullInvariant, PTL

\* Only a merge at d gives d one more merge to undo.
LEMMA MergesMerge ==
    ASSUME TypeInv, [Next]_vars, NEW d \in Device, Merges(d)
    PROVE  MergeAt(d)
<1>0. \A e \in Device : Len(sessions[e]) \in Nat
  BY RowType
<1>1. sessions' # sessions /\ ~SessionsKept
  BY <1>0, SessionsKeptType DEF Merges
<1>2. PICK e \in Device :
        \/ SessionsKept
        \/ Export(e)
        \/ \E p \in packages : Preview(e, p)
        \/ MergeAt(e)
  BY <1>1, Kinds DEF Next, vars
<1>3. MergeAt(e)
  BY <1>1, <1>2 DEF Export, Preview
<1>4. PICK r \in Rows \cup {NoRow}, i \in Device, c \in Clocks,
           q \in SUBSET Conflicts, k \in SUBSET Decisions :
        Leaves(e, r, i, c, q, k)
  BY <1>3, MergeShape DEF MergeLeaves
<1>5. d # e => sessions'[d] = sessions[d]
  BY <1>4, LeavesChanges
<1> QED
  BY <1>0, <1>3, <1>5 DEF Merges

LEMMA MergeLosesNothing ==
    ASSUME FullInv, [Next]_vars, NEW d \in Device, Merges(d), ~strayed',
           OfItsRow(d, plan[d].package)
    PROVE  /\ plan[d].verdict = "forward" => known[d] \subseteq plan[d].package.known
           /\ plan[d].verdict = "kept" => plan[d].package.known \subseteq known[d]
<1> DEFINE p == plan[d].package
           i == row[d].id
<1>1. MergeAt(d)
  BY MergesMerge DEF FullInv, KeepInv, CountInv
<1> SUFFICES ASSUME plan[d].verdict \in {"forward", "kept"}
             PROVE  /\ plan[d].verdict = "forward" => known[d] \subseteq p.known
                    /\ plan[d].verdict = "kept" => p.known \subseteq known[d]
  OBVIOUS
<1>2. plan[d] # NoPlan
  BY VerdictPlanned
<1>3. ~strayed /\ row[d] = plan[d].row
  BY <1>1 DEF MergeAt, Insert, Keep, Take, DecideMine, Defer, DecideValue,
              Strays, RowChanged
<1>4. /\ TypeInv /\ CountInv /\ ViewsAgree /\ row[d] # NoRow
      /\ row[d] \in Rows /\ i = plan[d].row.id /\ p \in Views /\ Stands(d)
  BY <1>2, <1>3, FitsPlan
<1>5. /\ Holds(d) \in Views /\ Fits(Holds(d)) /\ Holds(d).row = row[d]
      /\ Holds(d).known = known[d] /\ Holds(d).clock = clock[d][i]
      /\ clock[d][i] \in Clocks /\ known[d] \subseteq Decisions
  BY <1>4, HoldsFits
<1>6. p.clock \in Clocks /\ p.known \subseteq Decisions /\ Fits(p)
  BY <1>4, ViewType DEF ViewsAgree
<1>7. p.row.id = i
  BY DEF OfItsRow
<1>8. Agree(Holds(d), p) /\ Agree(p, Holds(d))
  BY <1>4, <1>5 DEF Fits
<1>9. ASSUME plan[d].verdict = "forward", NEW k \in known[d] PROVE k \in p.known
  <2>1. Covers(p.clock, clock[d][i])
    <3>1. plan[d].row.rev \in Nat
      BY <1>3, <1>4 DEF Rows
    <3> QED
      BY <1>3, <1>4, <1>9, <3>1 DEF Stands
  <2>2. k.by \in Device /\ k.count \in Nat
    BY <1>5, DecisionParts
  <2>3. k.count <= clock[d][i][k.by]
    BY <1>5 DEF Fits, Dated
  <2>4. k.count <= p.clock[k.by]
    BY <1>5, <1>6, <2>1, <2>2, <2>3 DEF Covers, Clocks
  <2> QED
    BY <1>5, <1>7, <1>8, <2>4 DEF Agree
<1>10. ASSUME plan[d].verdict = "kept", NEW k \in p.known PROVE k \in known[d]
  <2>1. Covers(clock[d][i], p.clock)
    BY <1>4, <1>10 DEF Stands
  <2>2. k.by \in Device /\ k.count \in Nat
    BY <1>6, DecisionParts
  <2>3. k.count <= p.clock[k.by]
    BY <1>6 DEF Fits, Dated
  <2>4. k.count <= clock[d][i][k.by]
    BY <1>5, <1>6, <2>1, <2>2, <2>3 DEF Covers, Clocks
  <2> QED
    BY <1>5, <1>7, <1>8, <2>4 DEF Agree
<1> QED
  BY <1>9, <1>10

(***************************************************************************)
(* A merge that asks nobody loses no decision about its row: one that      *)
(* takes the incoming value by its clock finds all that is known here      *)
(* known there, and one that passes over it finds all that is known there  *)
(* known here (compareVectors, _mergeVectors, _advanceDecisionVectors).    *)
(***************************************************************************)
THEOREM MergesLoseNothing == Spec => NoSilentLoss
<1>1. FullInv /\ [Next]_vars =>
        [\A d \in Device : Merges(d) /\ ~strayed' =>
           LET theirs == plan[d].package.known IN
           OfItsRow(d, plan[d].package) =>
           /\ plan[d].verdict = "forward" => known[d] \subseteq theirs
           /\ plan[d].verdict = "kept" => theirs \subseteq known[d]]_vars
  BY MergeLosesNothing
<1> QED
  BY <1>1, FullInvariant, PTL DEF Spec, NoSilentLoss

LEMMA UndoLosesNothing ==
    ASSUME FullInv, [Next]_vars, NEW d \in Device, Undoes(d), row'[d] # row[d],
           ~strayed
    PROVE  OwnWrites(d) \subseteq Last(sessions[d]).known
<1>0. TypeInv /\ SessionsHold
  BY DEF FullInv, KeepInv, CountInv, Settled
<1>1. \A e \in Device : Len(sessions[e]) \in Nat
  BY <1>0, RowType
<1>2. PICK e \in Device :
           \/ \E v \in Text, s \in {"scanned", "inferred"} : Capture(e, v, s)
           \/ \E v \in Text : Edit(e, v) \/ ChooseFinal(e, v)
           \/ Verify(e) \/ Export(e)
           \/ \E p \in packages : Preview(e, p)
           \/ Close(e)
           \/ Insert(e) \/ Keep(e) \/ Take(e)
           \/ DecideMine(e) \/ Defer(e)
           \/ \E c \in {"theirs", "typed"}, v \in Text : DecideValue(e, c, v)
           \/ ApplyFails(e)
           \/ Undo(e) \/ Lapse(e)
  BY <1>1 DEF Next, vars, Undoes
<1>3. sessions' # sessions /\ row' # row
  BY <1>1 DEF Undoes
<1>4. ~MergeAt(e)
  <2> SUFFICES ASSUME MergeAt(e) PROVE FALSE
    OBVIOUS
  <2>1. PICK r \in Rows \cup {NoRow}, i \in Device, c \in Clocks,
             q \in SUBSET Conflicts, k \in SUBSET Decisions :
          Leaves(e, r, i, c, q, k)
    BY <1>0, MergeShape DEF MergeLeaves
  <2>2. /\ d # e => sessions'[d] = sessions[d]
        /\ Len(sessions'[e]) = Len(sessions[e]) + 1
    BY <1>0, <2>1, LeavesChanges
  <2> QED
    BY <1>1, <2>2 DEF Undoes
<1>5. Undo(e)
  BY <1>2, <1>3, <1>4 DEF MergeAt, Capture, Edit, ChooseFinal, Verify, Export,
     Preview, Close, ApplyFails, Lapse, vars
<1>6. sessions' = [sessions EXCEPT ![e] = Front(sessions[e])]
  BY <1>5 DEF Undo
<1>7. d = e
  BY <1>0, <1>1, <1>6 DEF Undoes, TypeInv, TypeOK
<1> DEFINE s == Last(sessions[d])
<1>8. /\ s \in Undoable(d)
      /\ Rests(d) \/ (s.before # s.after /\ row[d] = s.after)
  BY <1>0, <1>5, <1>7, UndoShape
<1>9. s.before # s.after /\ row[d] = s.after
  BY <1>3, <1>8 DEF Rests
<1> QED
  BY <1>0, <1>8, <1>9 DEF SessionsHold

(***************************************************************************)
(* Undoing a merge takes back no write the device made after it, whatever  *)
(* was merged, lapsed or undone in between: while the row is what the      *)
(* merge left, its device wrote nothing to it since (ensureUnchanged and   *)
(* the refusal while a newer merge stands).                                *)
(***************************************************************************)
THEOREM UndosLoseNoEdit == Spec => UndoLosesNoEdit
<1>1. FullInv /\ [Next]_vars =>
        [\A d \in Device : Undoes(d) /\ row'[d] # row[d] =>
           strayed \/ OwnWrites(d) \subseteq Last(sessions[d]).known]_vars
  BY UndoLosesNothing
<1> QED
  BY <1>1, FullInvariant, PTL DEF Spec, UndoLosesNoEdit

=============================================================================
