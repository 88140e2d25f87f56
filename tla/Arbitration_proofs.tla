-------------------------- MODULE Arbitration_proofs --------------------------
(***************************************************************************)
(* Arbitration with its bond vault, for any panel, bonds, parties and windows: *)
(* the bond behind every open case, impartial arbitrators, windows that hold.  *)
(***************************************************************************)
EXTENDS Arbitration, SumTheorems, FiniteSetTheorems, TLAPS

(* The fields of the two contracts.                                           *)
BondsGood(b) ==
    /\ {"balance", "bonds", "activeAssignments", "reservedSlash", "withdrawReadyAt",
        "totalBonded", "totalPendingPayouts"} \subseteq DOMAIN b
    /\ b.balance \in Nat /\ b.totalBonded \in Nat /\ b.totalPendingPayouts \in Nat
    /\ b.bonds \in [Verifiers -> Nat] /\ b.activeAssignments \in [Verifiers -> Nat]
    /\ b.reservedSlash \in [Verifiers -> Nat] /\ b.withdrawReadyAt \in [Verifiers -> Nat]

DisputeGood(d) ==
    /\ {"arbitrator", "evidenceDeadline", "rulingDeadline", "status", "outcome", "slashed"}
          \subseteq DOMAIN d
    /\ d.arbitrator \in Verifiers \union {Nobody}
    /\ d.evidenceDeadline \in Nat /\ d.rulingDeadline \in Nat
    /\ d.status \in Status
    /\ d.slashed \in Nat

CasesGood(c) ==
    /\ {"panel", "assignmentCursor", "authorized", "disputes"} \subseteq DOMAIN c
    /\ c.panel \in Seq(Verifiers \union {Nobody})
    /\ c.assignmentCursor \in Nat
    /\ c.authorized \in [Verifiers -> BOOLEAN]
    /\ DOMAIN c.disputes = Tasks
    /\ \A t \in Tasks : DisputeGood(c.disputes[t])

Funded(b) == b.balance >= b.totalBonded + b.totalPendingPayouts

(* A case still open was not slashed; its ruling deadline is set when its      *)
(* evidence window has closed, a ruling window after it.                      *)
OnTime(d) ==
    /\ Open(d) => d.slashed = 0
    /\ d.status = "EVIDENCE" => d.rulingDeadline = 0
    /\ d.status = "RULING" => /\ d.rulingDeadline = d.evidenceDeadline + RulingWindow
                              /\ now > d.evidenceDeadline

Inv ==
    /\ now \in Nat
    /\ CasesGood(cases) /\ BondsGood(bondVault) /\ Funded(bondVault)
    /\ BondsCoverCases
    /\ NobodyJudgesOwnCase
    /\ \A t \in Tasks : OnTime(cases.disputes[t])

-------------------------------------------------------------------------------
(* The round robin.                                                          *)

(* A set of numbers has a least one.                                         *)
LEMMA LeastNumber ==
    ASSUME NEW is, is \subseteq Nat, is # {}
    PROVE  \E i \in is : \A j \in is : i <= j
<1> DEFINE below(i) == 1..i
           T == {below(i) : i \in is}
<1>1. T \subseteq FiniteSubsetsOf(Nat) /\ T # {}
  <2>1. \A i \in Nat : below(i) \in SUBSET Nat /\ IsFiniteSet(below(i))
    BY FS_Interval
  <2> QED
    BY <2>1 DEF FiniteSubsetsOf
<1>2. PICK s \in T : \A r \in T : <<r, s>> \notin StrictSubsetOrdering(Nat)
  BY <1>1, FS_StrictSubsetOrderingWellFounded, WFMin
<1>3. PICK i \in is : s = below(i)
  OBVIOUS
<1>4. ASSUME NEW j \in is
      PROVE  i <= j
  <2>1. CASE j < i
    <3>1. below(j) \subseteq below(i) /\ below(j) # below(i)
      <4>1. i \in below(i) /\ i \notin below(j)
        BY <2>1
      <4> QED
        BY <2>1, <4>1
    <3>2. <<below(j), below(i)>> \in StrictSubsetOrdering(Nat)
      BY <3>1 DEF StrictSubsetOrdering
    <3> QED
      BY <1>2, <1>3, <3>2
  <2> QED
    BY <2>1
<1> QED
  BY <1>4

(* Remainders point into a sequence.                                          *)
LEMMA RemainderFacts ==
    ASSUME NEW x \in Nat, NEW n \in Nat \ {0}
    PROVE  x % n \in 0..(n - 1)
  BY Z3

(* The position chosen is one of the panel, and who holds it suits the       *)
(* case.                                                                     *)
LEMMA ChoiceSuits ==
    ASSUME NEW c, NEW b, NEW poster, NEW worker, CasesGood(c),
           Choices(c, b, poster, worker) # {}
    PROVE  /\ FirstChoice(c, b, poster, worker) \in 1..Len(c.panel)
           /\ Suits(c, b, c.panel[FirstChoice(c, b, poster, worker)], poster, worker)
<1> DEFINE is == Choices(c, b, poster, worker)
           Least(i) == i \in is /\ \A j \in is : i <= j
           first == CHOOSE i \in is : \A j \in is : i <= j
<1>1. is \subseteq 1..Len(c.panel) /\ is \subseteq Nat
  BY DEF Choices, CasesGood
<1>2. first \in is
  <2>1. \E i \in is : \A j \in is : i <= j
    BY <1>1, LeastNumber
  <2> HIDE DEF is
  <2> QED
    BY <2>1
<1>3. Suits(c, b, c.panel[Positions(c)[first]], poster, worker)
  BY <1>2 DEF Choices
<1>4. Positions(c)[first] \in 1..Len(c.panel)
  <2>1. first \in 1..Len(c.panel) /\ Len(c.panel) \in Nat \ {0} /\ c.assignmentCursor \in Nat
    BY <1>1, <1>2 DEF CasesGood
  <2> HIDE DEF first
  <2>2. c.assignmentCursor + first - 1 \in Nat
    BY <2>1
  <2>3. (c.assignmentCursor + first - 1) % Len(c.panel) \in 0..(Len(c.panel) - 1)
    BY <2>1, <2>2, RemainderFacts
  <2> QED
    BY <2>1, <2>3 DEF Positions
<1> QED
  BY <1>3, <1>4 DEF FirstChoice

(* Who is assigned, if anybody: an authorized, eligible member, no party; and  *)
(* the cursor stays a number.                                                *)
LEMMA NextFacts ==
    ASSUME Assumed, NEW c, NEW b, NEW poster, NEW worker, CasesGood(c)
    PROVE  LET a == NextArbitrator(c, b, poster, worker)
           IN  /\ a = Nobody \/ (/\ a \in Verifiers /\ a \notin {poster, worker}
                                 /\ c.authorized[a] /\ Bonds!IsEligible(b, a))
               /\ CursorAfter(c, b, poster, worker) \in Nat
<1> DEFINE first == FirstChoice(c, b, poster, worker)
<1>1. CASE Choices(c, b, poster, worker) = {}
  BY <1>1 DEF NextArbitrator, CursorAfter, CasesGood
<1>2. CASE Choices(c, b, poster, worker) # {}
  <2>1. first \in 1..Len(c.panel) /\ Suits(c, b, c.panel[first], poster, worker)
    BY <1>2, ChoiceSuits
  <2>2. c.panel[first] \in Verifiers \union {Nobody}
    BY <2>1 DEF CasesGood
  <2>3. first % Len(c.panel) \in Nat
    <3> DEFINE n == Len(c.panel)
    <3>1. n \in Nat \ {0} /\ first \in 1..n
      BY <2>1 DEF CasesGood
    <3> HIDE DEF n, first
    <3>2. first % n \in 0..(n - 1)
      BY <3>1, RemainderFacts
    <3>3. first % n \in Nat
      BY <3>1, <3>2
    <3> QED
      BY <3>3 DEF n
  <2> HIDE DEF first
  <2> QED
    BY <1>2, <2>1, <2>2, <2>3 DEF NextArbitrator, CursorAfter, Suits, first
<1> QED
  BY <1>1, <1>2

-------------------------------------------------------------------------------
(* Cases and the bonds behind them.                                           *)

(* A new member makes a finite set larger by one.                            *)
LEMMA OneMore ==
    ASSUME NEW S, IsFiniteSet(S), NEW x, x \notin S
    PROVE  Cardinality(S \union {x}) = Cardinality(S) + 1
<1>1. Cardinality(S) \in Nat
  BY FS_CardinalityType
<1>2. Cardinality(S \union {x}) = IF x \in S THEN Cardinality(S) ELSE Cardinality(S) + 1
  BY FS_AddElement, Zenon
<1> QED
  BY <1>1, <1>2

(* Taking a member away makes it smaller by one.                             *)
LEMMA OneLess ==
    ASSUME NEW S, IsFiniteSet(S), NEW x \in S
    PROVE  Cardinality(S \ {x}) = Cardinality(S) - 1
<1>1. Cardinality(S) \in Nat
  BY FS_CardinalityType
<1>2. Cardinality(S \ {x}) = IF x \in S THEN Cardinality(S) - 1 ELSE Cardinality(S)
  BY FS_RemoveElement, Zenon
<1> QED
  BY <1>1, <1>2

(* The assumption on the constants, as an operator the lemmas can take.      *)
LEMMA AssumptionHolds == Assumed
  BY ArbitrationAssumption DEF Assumed

(* What it says that the lemmas need most.                                   *)
LEMMA ConstantFacts ==
    ASSUME Assumed
    PROVE  /\ IsFiniteSet(Tasks) /\ Nobody \notin Verifiers /\ MinimumBond \in Nat \ {0}
           /\ WithdrawalCooldown \in Nat \ {0} /\ EvidenceWindow \in Nat \ {0}
           /\ RulingWindow \in Nat \ {0} /\ BondAmounts \subseteq Nat
           /\ StartPanel \in Seq(Verifiers)
  BY DEF Assumed

(* The open cases of an arbitrator can be counted.                           *)
LEMMA OpenCasesFinite ==
    ASSUME Assumed, NEW x
    PROVE  IsFiniteSet(OpenCases(x)) /\ Cardinality(OpenCases(x)) \in Nat
<1>1. OpenCases(x) \subseteq Tasks /\ IsFiniteSet(Tasks)
  BY ConstantFacts DEF OpenCases
<1>2. IsFiniteSet(OpenCases(x))
  BY <1>1, FS_Subset
<1> QED
  BY <1>2, FS_CardinalityType

(* Nobody serves who has no assignment.                                       *)
LEMMA IdleHasNoCase ==
    ASSUME Assumed, Inv, NEW x \in Verifiers, bondVault.activeAssignments[x] = 0
    PROVE  OpenCases(x) = {}
<1>1. Cardinality(OpenCases(x)) = 0
  BY DEF Inv, BondsCoverCases
<1> QED
  BY <1>1, OpenCasesFinite, FS_EmptySet

(* Its open cases are the same when no case opens, ends or changes hands.    *)
LEMMA SameOpenCases ==
    ASSUME \A t \in Tasks : /\ Open(cases'.disputes[t]) <=> Open(cases.disputes[t])
                            /\ cases'.disputes[t].arbitrator = cases.disputes[t].arbitrator,
           NEW x
    PROVE  OpenCases(x)' = OpenCases(x)
  BY DEF OpenCases, Open

(* Only dispute t changes.                                                   *)
OthersSame(t) == \A u \in Tasks \ {t} : cases'.disputes[u] = cases.disputes[u]

(* Nobody has dispute t.                                                      *)
Unserved(t) ==
    \A x \in Verifiers : ~(Open(cases.disputes[t]) /\ cases.disputes[t].arbitrator = x)

(* One case more for a verifier, or one less.                                 *)
LEMMA CaseGained ==
    ASSUME Assumed, NEW t \in Tasks, NEW a,
           ~(Open(cases.disputes[t]) /\ cases.disputes[t].arbitrator = a),
           Open(cases'.disputes[t]) /\ cases'.disputes[t].arbitrator = a,
           OthersSame(t)
    PROVE  Cardinality(OpenCases(a)') = Cardinality(OpenCases(a)) + 1
<1> DEFINE before == OpenCases(a)
           after == OpenCases(a)'
<1>1. after = before \union {t} /\ t \notin before
  BY DEF OpenCases, Open, OthersSame
<1>2. IsFiniteSet(before)
  BY OpenCasesFinite
<1> HIDE DEF before, after
<1>3. Cardinality(after) = Cardinality(before) + 1
  BY <1>1, <1>2, OneMore
<1> QED
  BY <1>3 DEF before, after

(* Its open cases are one fewer when one of them ends.                       *)
LEMMA CaseLost ==
    ASSUME Assumed, NEW t \in Tasks, NEW a,
           Open(cases.disputes[t]) /\ cases.disputes[t].arbitrator = a,
           ~Open(cases'.disputes[t]),
           OthersSame(t)
    PROVE  /\ Cardinality(OpenCases(a)) \in Nat /\ OpenCases(a) # {}
           /\ Cardinality(OpenCases(a)') = Cardinality(OpenCases(a)) - 1
           /\ Cardinality(OpenCases(a)) > 0
<1> DEFINE before == OpenCases(a)
           after == OpenCases(a)'
<1>1. after = before \ {t} /\ t \in before
  BY DEF OpenCases, Open, OthersSame
<1>2. IsFiniteSet(before) /\ Cardinality(before) \in Nat
  BY OpenCasesFinite
<1> HIDE DEF before, after
<1>3. Cardinality(after) = Cardinality(before) - 1 /\ Cardinality(before) # 0
  BY <1>1, <1>2, OneLess, FS_EmptySet
<1> QED
  BY <1>1, <1>2, <1>3 DEF before, after

(* Nothing changes for the others.                                            *)
LEMMA OthersKeepCases ==
    ASSUME NEW t \in Tasks, NEW x,
           ~(Open(cases.disputes[t]) /\ cases.disputes[t].arbitrator = x),
           ~(Open(cases'.disputes[t]) /\ cases'.disputes[t].arbitrator = x),
           OthersSame(t)
    PROVE  OpenCases(x)' = OpenCases(x)
  BY DEF OpenCases, Open, OthersSame

-------------------------------------------------------------------------------
(* The operations of the bond vault, field by field.                          *)

(* Adding to one verifier's entry.                                           *)
LEMMA BookMore ==
    ASSUME NEW f \in [Verifiers -> Nat], NEW a \in Verifiers, NEW n \in Nat
    PROVE  LET g == [f EXCEPT ![a] = @ + n]
           IN  /\ g \in [Verifiers -> Nat] /\ g[a] = f[a] + n
               /\ \A x \in Verifiers \ {a} : g[x] = f[x]
<1>1. f[a] + n \in Nat
  OBVIOUS
<1> QED
  BY <1>1

(* Taking from one verifier's entry.                                         *)
LEMMA BookLess ==
    ASSUME NEW f \in [Verifiers -> Nat], NEW a \in Verifiers, NEW n \in Nat, n <= f[a]
    PROVE  LET g == [f EXCEPT ![a] = @ - n]
           IN  /\ g \in [Verifiers -> Nat] /\ g[a] = f[a] - n
               /\ \A x \in Verifiers \ {a} : g[x] = f[x]
<1>1. f[a] - n \in Nat
  OBVIOUS
<1> QED
  BY <1>1

(* The vault r differs from b in x's books by the numbers given.              *)
Moves(b, r, x, assigned, reserved, bonded) ==
    /\ BondsGood(r)
    /\ r.activeAssignments[x] = b.activeAssignments[x] + assigned
    /\ r.reservedSlash[x] = b.reservedSlash[x] + reserved
    /\ r.bonds[x] = b.bonds[x] + bonded
    /\ \A y \in Verifiers \ {x} : /\ r.activeAssignments[y] = b.activeAssignments[y]
                                  /\ r.reservedSlash[y] = b.reservedSlash[y]
                                  /\ r.bonds[y] = b.bonds[y]

(* assign: one assignment and one bond reserved more.                        *)
LEMMA AssignFacts ==
    ASSUME MinimumBond \in Nat, NEW b, BondsGood(b), NEW x \in Verifiers
    PROVE  LET r == Bonds!Assign(b, x)
           IN  /\ Moves(b, r, x, 1, MinimumBond, 0)
               /\ r.withdrawReadyAt = b.withdrawReadyAt /\ r.balance = b.balance
               /\ r.totalBonded = b.totalBonded
               /\ r.totalPendingPayouts = b.totalPendingPayouts
<1> DEFINE r == Bonds!Assign(b, x)
           active == [b.activeAssignments EXCEPT ![x] = @ + 1]
           reserved == [b.reservedSlash EXCEPT ![x] = @ + MinimumBond]
<1>1. /\ DOMAIN r = DOMAIN b
      /\ r.activeAssignments = active /\ r.reservedSlash = reserved
      /\ r.bonds = b.bonds /\ r.withdrawReadyAt = b.withdrawReadyAt /\ r.balance = b.balance
      /\ r.totalBonded = b.totalBonded /\ r.totalPendingPayouts = b.totalPendingPayouts
  BY DEF BondsGood, Bonds!Assign, Bonds!AssignmentReserve, Bonds!Plus
<1> HIDE DEF r
<1>2. /\ active \in [Verifiers -> Nat] /\ active[x] = b.activeAssignments[x] + 1
      /\ \A y \in Verifiers \ {x} : active[y] = b.activeAssignments[y]
  BY BookMore DEF BondsGood
<1>3. /\ reserved \in [Verifiers -> Nat] /\ reserved[x] = b.reservedSlash[x] + MinimumBond
      /\ \A y \in Verifiers \ {x} : reserved[y] = b.reservedSlash[y]
  BY BookMore DEF BondsGood
<1> HIDE DEF active, reserved
<1>4. BondsGood(r)
  BY <1>1, <1>2, <1>3 DEF BondsGood
<1>5. b.bonds[x] \in Nat
  BY DEF BondsGood
<1> QED
  BY <1>1, <1>2, <1>3, <1>4, <1>5 DEF Moves, r

(* release: one of each less.                                                *)
LEMMA ReleaseFacts ==
    ASSUME MinimumBond \in Nat, NEW b, BondsGood(b), NEW x \in Verifiers,
           1 <= b.activeAssignments[x], MinimumBond <= b.reservedSlash[x]
    PROVE  LET r == Bonds!Release(b, x)
           IN  /\ Moves(b, r, x, -1, -MinimumBond, 0)
               /\ r.withdrawReadyAt = b.withdrawReadyAt /\ r.balance = b.balance
               /\ r.totalBonded = b.totalBonded
               /\ r.totalPendingPayouts = b.totalPendingPayouts
<1> DEFINE r == Bonds!Release(b, x)
           active == [b.activeAssignments EXCEPT ![x] = @ - 1]
           reserved == [b.reservedSlash EXCEPT ![x] = @ - MinimumBond]
<1>1. /\ DOMAIN r = DOMAIN b
      /\ r.activeAssignments = active /\ r.reservedSlash = reserved
      /\ r.bonds = b.bonds /\ r.withdrawReadyAt = b.withdrawReadyAt /\ r.balance = b.balance
      /\ r.totalBonded = b.totalBonded /\ r.totalPendingPayouts = b.totalPendingPayouts
  BY DEF BondsGood, Bonds!Release, Bonds!AssignmentReserve, Bonds!Minus
<1> HIDE DEF r
<1>2. /\ active \in [Verifiers -> Nat] /\ active[x] = b.activeAssignments[x] - 1
      /\ \A y \in Verifiers \ {x} : active[y] = b.activeAssignments[y]
  BY BookLess DEF BondsGood
<1>3. /\ reserved \in [Verifiers -> Nat] /\ reserved[x] = b.reservedSlash[x] - MinimumBond
      /\ \A y \in Verifiers \ {x} : reserved[y] = b.reservedSlash[y]
  BY BookLess DEF BondsGood
<1> HIDE DEF active, reserved
<1>4. BondsGood(r)
  BY <1>1, <1>2, <1>3 DEF BondsGood
<1>5. b.bonds[x] \in Nat /\ b.activeAssignments[x] \in Nat /\ b.reservedSlash[x] \in Nat
  BY DEF BondsGood
<1> QED
  BY <1>1, <1>2, <1>3, <1>4, <1>5 DEF Moves, r

(* slashAndRelease: as release, and the slash leaves the bond and the vault  *)
(* or is owed.                                                               *)
LEMMA SlashFacts ==
    ASSUME MinimumBond \in Nat, NEW b, BondsGood(b), NEW x \in Verifiers, NEW n \in Nat,
           NEW refused, Bonds!CanSlashAndRelease(b, x, n), Funded(b)
    PROVE  LET r == Bonds!SlashAndRelease(b, x, n, refused)
           IN  /\ Moves(b, r, x, -1, -MinimumBond, -n)
               /\ r.withdrawReadyAt = b.withdrawReadyAt /\ Funded(r)
               /\ n <= MinimumBond /\ n <= b.bonds[x]
<1> DEFINE m == Bonds!Release(b, x)
           r == Bonds!SlashAndRelease(b, x, n, refused)
           less == [b.bonds EXCEPT ![x] = @ - n]
<1>1. /\ 1 <= b.activeAssignments[x] /\ MinimumBond <= b.reservedSlash[x]
      /\ n <= MinimumBond /\ n <= b.bonds[x] /\ n <= b.totalBonded
      /\ b.totalBonded \in Nat /\ b.balance \in Nat /\ b.totalPendingPayouts \in Nat
  BY DEF Bonds!CanSlashAndRelease, Bonds!CanRelease, Bonds!AssignmentReserve, BondsGood
<1>2. /\ Moves(b, m, x, -1, -MinimumBond, 0) /\ m.withdrawReadyAt = b.withdrawReadyAt
      /\ m.balance = b.balance /\ m.totalBonded = b.totalBonded
      /\ m.totalPendingPayouts = b.totalPendingPayouts
  BY <1>1, ReleaseFacts
<1>3. m.bonds = b.bonds
  BY DEF Bonds!Release, BondsGood
<1>4. /\ less \in [Verifiers -> Nat] /\ less[x] = b.bonds[x] - n
      /\ \A y \in Verifiers \ {x} : less[y] = b.bonds[y]
  BY <1>1, BookLess DEF BondsGood
<1>5. /\ DOMAIN r = DOMAIN m
      /\ r.activeAssignments = m.activeAssignments /\ r.reservedSlash = m.reservedSlash
      /\ r.bonds = less /\ r.withdrawReadyAt = m.withdrawReadyAt
      /\ r.totalBonded = m.totalBonded - n
      /\ \/ r.balance = m.balance /\ r.totalPendingPayouts = m.totalPendingPayouts + n
         \/ /\ n <= m.balance
            /\ r.balance = m.balance - n /\ r.totalPendingPayouts = m.totalPendingPayouts
  <2> DEFINE q == [m EXCEPT !.bonds = less, !.totalBonded = @ - n]
  <2>1. BondsGood(m)
    BY <1>2 DEF Moves
  <2> HIDE DEF m, less
  <2>2. /\ DOMAIN q = DOMAIN m
        /\ q.activeAssignments = m.activeAssignments /\ q.reservedSlash = m.reservedSlash
        /\ q.bonds = less /\ q.withdrawReadyAt = m.withdrawReadyAt
        /\ q.totalBonded = m.totalBonded - n /\ q.balance = m.balance
        /\ q.totalPendingPayouts = m.totalPendingPayouts
    BY <2>1 DEF BondsGood
  <2>3. r = IF refused \/ n > b.balance THEN [q EXCEPT !.totalPendingPayouts = @ + n]
            ELSE [q EXCEPT !.balance = @ - n]
    BY <1>3 DEF Bonds!SlashAndRelease, Bonds!Minus, less, m
  <2> HIDE DEF q, r
  <2>4. {"balance", "bonds", "activeAssignments", "reservedSlash", "withdrawReadyAt",
         "totalBonded", "totalPendingPayouts"} \subseteq DOMAIN q
    BY <2>1, <2>2 DEF BondsGood
  <2>5. CASE refused \/ n > b.balance
    BY <2>2, <2>3, <2>4, <2>5
  <2>6. CASE ~(refused \/ n > b.balance)
    <3>1. n <= m.balance
      BY <1>1, <1>2, <2>6
    <3> QED
      BY <2>2, <2>3, <2>4, <2>6, <3>1
  <2> QED
    BY <2>5, <2>6
<1> HIDE DEF r, m, less
<1>6. r.balance \in Nat /\ r.totalBonded \in Nat /\ r.totalPendingPayouts \in Nat /\ Funded(r)
  BY <1>1, <1>2, <1>5 DEF Funded
<1>7. BondsGood(r)
  BY <1>2, <1>4, <1>5, <1>6 DEF Moves, BondsGood
<1>8. b.bonds[x] \in Nat
  BY DEF BondsGood
<1> QED
  BY <1>1, <1>2, <1>4, <1>5, <1>6, <1>7, <1>8 DEF Moves, r

(* bond: more is bonded, and a scheduled withdrawal is called off.           *)
LEMMA BondFacts ==
    ASSUME NEW b, BondsGood(b), Funded(b), NEW x \in Verifiers, NEW n \in Nat
    PROVE  LET r == Bonds!Bond(b, x, n)
           IN  /\ Moves(b, r, x, 0, 0, n) /\ Funded(r)
               /\ r.withdrawReadyAt[x] = 0
               /\ \A y \in Verifiers \ {x} : r.withdrawReadyAt[y] = b.withdrawReadyAt[y]
<1> DEFINE r == Bonds!Bond(b, x, n)
           more == [b.bonds EXCEPT ![x] = @ + n]
           ready == [b.withdrawReadyAt EXCEPT ![x] = 0]
<1>1. /\ DOMAIN r = DOMAIN b
      /\ r.activeAssignments = b.activeAssignments /\ r.reservedSlash = b.reservedSlash
      /\ r.bonds = more /\ r.withdrawReadyAt = ready /\ r.balance = b.balance + n
      /\ r.totalBonded = b.totalBonded + n /\ r.totalPendingPayouts = b.totalPendingPayouts
  BY DEF BondsGood, Bonds!Bond, Bonds!Plus
<1> HIDE DEF r
<1>2. /\ more \in [Verifiers -> Nat] /\ more[x] = b.bonds[x] + n
      /\ \A y \in Verifiers \ {x} : more[y] = b.bonds[y]
  BY BookMore DEF BondsGood
<1>3. /\ ready \in [Verifiers -> Nat] /\ ready[x] = 0
      /\ \A y \in Verifiers \ {x} : ready[y] = b.withdrawReadyAt[y]
  BY DEF BondsGood
<1> HIDE DEF more, ready
<1>4. r.balance \in Nat /\ r.totalBonded \in Nat /\ Funded(r)
  BY <1>1 DEF BondsGood, Funded
<1>5. BondsGood(r)
  BY <1>1, <1>2, <1>3, <1>4 DEF BondsGood
<1>6. b.activeAssignments[x] \in Nat /\ b.reservedSlash[x] \in Nat
  BY DEF BondsGood
<1> QED
  BY <1>1, <1>2, <1>3, <1>4, <1>5, <1>6 DEF Moves, r

(* withdraw: less is bonded, and the schedule is used up.                    *)
LEMMA WithdrawFacts ==
    ASSUME NEW b, BondsGood(b), Funded(b), NEW x \in Verifiers, NEW n \in Nat,
           n <= b.bonds[x], n <= b.totalBonded, n <= b.balance
    PROVE  LET r == Bonds!WithdrawBond(b, x, n)
           IN  /\ Moves(b, r, x, 0, 0, -n) /\ Funded(r)
               /\ r.withdrawReadyAt[x] = 0
               /\ \A y \in Verifiers \ {x} : r.withdrawReadyAt[y] = b.withdrawReadyAt[y]
<1> DEFINE r == Bonds!WithdrawBond(b, x, n)
           less == [b.bonds EXCEPT ![x] = @ - n]
           ready == [b.withdrawReadyAt EXCEPT ![x] = 0]
<1>1. /\ DOMAIN r = DOMAIN b
      /\ r.activeAssignments = b.activeAssignments /\ r.reservedSlash = b.reservedSlash
      /\ r.bonds = less /\ r.withdrawReadyAt = ready /\ r.balance = b.balance - n
      /\ r.totalBonded = b.totalBonded - n /\ r.totalPendingPayouts = b.totalPendingPayouts
  BY DEF BondsGood, Bonds!WithdrawBond, Bonds!Minus
<1> HIDE DEF r
<1>2. /\ less \in [Verifiers -> Nat] /\ less[x] = b.bonds[x] - n
      /\ \A y \in Verifiers \ {x} : less[y] = b.bonds[y]
  BY BookLess DEF BondsGood
<1>3. /\ ready \in [Verifiers -> Nat] /\ ready[x] = 0
      /\ \A y \in Verifiers \ {x} : ready[y] = b.withdrawReadyAt[y]
  BY DEF BondsGood
<1> HIDE DEF less, ready
<1>4. r.balance \in Nat /\ r.totalBonded \in Nat /\ Funded(r)
  BY <1>1 DEF BondsGood, Funded
<1>5. BondsGood(r)
  BY <1>1, <1>2, <1>3, <1>4 DEF BondsGood
<1>6. b.activeAssignments[x] \in Nat /\ b.reservedSlash[x] \in Nat /\ b.bonds[x] \in Nat
  BY DEF BondsGood
<1> QED
  BY <1>1, <1>2, <1>3, <1>4, <1>5, <1>6 DEF Moves, r

(* scheduleWithdrawal moves nothing but the schedule.                        *)
LEMMA ScheduleFacts ==
    ASSUME NEW b, BondsGood(b), Funded(b), NEW x \in Verifiers,
           WithdrawalCooldown \in Nat, now \in Nat
    PROVE  LET r == Bonds!ScheduleWithdrawal(b, x, now)
           IN  /\ Moves(b, r, x, 0, 0, 0) /\ Funded(r)
               /\ \A y \in Verifiers \ {x} : r.withdrawReadyAt[y] = b.withdrawReadyAt[y]
<1> DEFINE r == Bonds!ScheduleWithdrawal(b, x, now)
           ready == [b.withdrawReadyAt EXCEPT ![x] = now + WithdrawalCooldown]
<1>1. /\ DOMAIN r = DOMAIN b
      /\ r.activeAssignments = b.activeAssignments /\ r.reservedSlash = b.reservedSlash
      /\ r.bonds = b.bonds /\ r.withdrawReadyAt = ready /\ r.balance = b.balance
      /\ r.totalBonded = b.totalBonded /\ r.totalPendingPayouts = b.totalPendingPayouts
  BY DEF BondsGood, Bonds!ScheduleWithdrawal
<1> HIDE DEF r
<1>2. now + WithdrawalCooldown \in Nat
  OBVIOUS
<1>3. /\ ready \in [Verifiers -> Nat]
      /\ \A y \in Verifiers \ {x} : ready[y] = b.withdrawReadyAt[y]
  BY <1>2 DEF BondsGood
<1> HIDE DEF ready
<1>4. BondsGood(r) /\ Funded(r)
  BY <1>1, <1>3 DEF BondsGood, Funded
<1>5. b.activeAssignments[x] \in Nat /\ b.reservedSlash[x] \in Nat /\ b.bonds[x] \in Nat
  BY DEF BondsGood
<1> QED
  BY <1>1, <1>3, <1>4, <1>5 DEF Moves, r

(* claimPayout of the treasury: what was owed is paid, no bond is touched.   *)
LEMMA ClaimFacts ==
    ASSUME NEW b, BondsGood(b), Funded(b), Bonds!CanClaimSlash(b)
    PROVE  LET r == Bonds!ClaimSlash(b)
           IN  /\ BondsGood(r) /\ Funded(r)
               /\ r.activeAssignments = b.activeAssignments
               /\ r.reservedSlash = b.reservedSlash /\ r.bonds = b.bonds
               /\ r.withdrawReadyAt = b.withdrawReadyAt
<1> DEFINE r == Bonds!ClaimSlash(b)
<1>1. /\ DOMAIN r = DOMAIN b
      /\ r.activeAssignments = b.activeAssignments /\ r.reservedSlash = b.reservedSlash
      /\ r.bonds = b.bonds /\ r.withdrawReadyAt = b.withdrawReadyAt
      /\ r.balance = b.balance - b.totalPendingPayouts
      /\ r.totalBonded = b.totalBonded /\ r.totalPendingPayouts = 0
  BY DEF BondsGood, Bonds!ClaimSlash
<1> HIDE DEF r
<1>2. r.balance \in Nat /\ Funded(r)
  BY <1>1 DEF BondsGood, Funded, Bonds!CanClaimSlash
<1>3. BondsGood(r)
  BY <1>1, <1>2 DEF BondsGood
<1> QED
  BY <1>1, <1>2, <1>3 DEF r

-------------------------------------------------------------------------------
(* Cover, as cases change hands.                                              *)

(* What the invariant says of one verifier.                                  *)
LEMMA CoveredBefore ==
    ASSUME Assumed, Inv, NEW x \in Verifiers
    PROVE  /\ bondVault.activeAssignments[x] = Cardinality(OpenCases(x))
           /\ bondVault.reservedSlash[x] = Cardinality(OpenCases(x)) * MinimumBond
           /\ bondVault.bonds[x] >= bondVault.reservedSlash[x]
           /\ bondVault.bonds[x] \in Nat /\ Cardinality(OpenCases(x)) \in Nat
           /\ OpenCases(x) # {} => cases.authorized[x] /\ bondVault.withdrawReadyAt[x] = 0
<1>1. Cardinality(OpenCases(x)) \in Nat
  BY OpenCasesFinite
<1>2. bondVault.bonds[x] \in Nat
  BY DEF Inv, BondsGood
<1>3. BondsCoverCases
  BY DEF Inv
<1>4. /\ bondVault.activeAssignments[x] = Cardinality(OpenCases(x))
      /\ bondVault.reservedSlash[x] = Cardinality(OpenCases(x)) * MinimumBond
      /\ bondVault.bonds[x] >= bondVault.reservedSlash[x]
  BY <1>3 DEF BondsCoverCases
<1>5. OpenCases(x) # {} => cases.authorized[x] /\ bondVault.withdrawReadyAt[x] = 0
  BY <1>3 DEF BondsCoverCases
<1> QED
  BY <1>1, <1>2, <1>4, <1>5

(* A reserve of k assignments, of which there is one more or one less.         *)
LEMMA OneMoreReserved ==
    ASSUME NEW k \in Nat, NEW M \in Nat, NEW bond \in Nat, bond - k * M >= M
    PROVE  k * M + M = (k + 1) * M /\ bond + 0 >= (k + 1) * M
<1>1. (k + 1) * M = k * M + M /\ k * M \in Nat
  OBVIOUS
<1> QED
  BY <1>1

(* Where k bonds were reserved and one is given back, less at most a bond,   *)
(* the rest covers k - 1.                                                    *)
LEMMA OneLessReserved ==
    ASSUME NEW k \in Nat \ {0}, NEW M \in Nat, NEW bond \in Nat, NEW n \in Nat,
           bond >= k * M, n <= M
    PROVE  k * M + (-M) = (k - 1) * M /\ bond + (0 - n) >= (k - 1) * M
<1>1. (k - 1) * M = k * M - M /\ k * M \in Nat
  OBVIOUS
<1> QED
  BY <1>1

(* A case taken by a verifier who was eligible for it.                         *)
LEMMA CoverAssign ==
    ASSUME Assumed, Inv, NEW t \in Tasks, NEW a \in Verifiers,
           Unserved(t),
           Open(cases'.disputes[t]), cases'.disputes[t].arbitrator = a,
           OthersSame(t),
           cases'.authorized = cases.authorized, cases.authorized[a],
           Bonds!IsEligible(bondVault, a), bondVault' = Bonds!Assign(bondVault, a)
    PROVE  BondsGood(bondVault') /\ Funded(bondVault') /\ BondsCoverCases'
<1> DEFINE r == Bonds!Assign(bondVault, a)
           k == Cardinality(OpenCases(a))
<1>1. MinimumBond \in Nat
  BY ConstantFacts
<1>2. /\ Moves(bondVault, r, a, 1, MinimumBond, 0)
      /\ r.withdrawReadyAt = bondVault.withdrawReadyAt /\ r.balance = bondVault.balance
      /\ r.totalBonded = bondVault.totalBonded
      /\ r.totalPendingPayouts = bondVault.totalPendingPayouts
  BY <1>1, AssignFacts DEF Inv
<1> HIDE DEF r
<1>3. bondVault' = r
  BY DEF r
<1>4. BondsGood(bondVault') /\ Funded(bondVault')
  <2>1. BondsGood(r)
    BY <1>2 DEF Moves
  <2>2. Funded(bondVault)
    BY DEF Inv
  <2>3. Funded(r)
    BY <1>2, <2>2 DEF Funded
  <2> QED
    BY <1>3, <2>1, <2>3
<1>5. /\ bondVault.bonds[a] - bondVault.reservedSlash[a] >= MinimumBond
      /\ bondVault.withdrawReadyAt[a] = 0
  BY DEF Bonds!IsEligible, Bonds!AssignmentReserve
<1>6. /\ bondVault'.activeAssignments[a] = Cardinality(OpenCases(a)')
      /\ bondVault'.reservedSlash[a] = Cardinality(OpenCases(a)') * MinimumBond
      /\ bondVault'.bonds[a] >= bondVault'.reservedSlash[a]
      /\ cases'.authorized[a] /\ bondVault'.withdrawReadyAt[a] = 0
  <2>1. Cardinality(OpenCases(a)') = k + 1
    BY CaseGained DEF Unserved
  <2>2. /\ k \in Nat /\ bondVault.bonds[a] \in Nat /\ bondVault.activeAssignments[a] = k
        /\ bondVault.reservedSlash[a] = k * MinimumBond
    BY CoveredBefore
  <2>3. /\ bondVault'.activeAssignments[a] = bondVault.activeAssignments[a] + 1
        /\ bondVault'.reservedSlash[a] = bondVault.reservedSlash[a] + MinimumBond
        /\ bondVault'.bonds[a] = bondVault.bonds[a] + 0
    BY <1>2, <1>3 DEF Moves
  <2> HIDE DEF k
  <2>4. /\ k * MinimumBond + MinimumBond = (k + 1) * MinimumBond
        /\ bondVault.bonds[a] + 0 >= (k + 1) * MinimumBond
    BY <1>1, <1>5, <2>2, OneMoreReserved
  <2>5. cases'.authorized[a] /\ bondVault'.withdrawReadyAt[a] = 0
    BY <1>2, <1>3, <1>5
  <2> QED
    BY <2>1, <2>2, <2>3, <2>4, <2>5
<1>7. ASSUME NEW x \in Verifiers, x # a
      PROVE  /\ bondVault'.activeAssignments[x] = Cardinality(OpenCases(x)')
             /\ bondVault'.reservedSlash[x] = Cardinality(OpenCases(x)') * MinimumBond
             /\ bondVault'.bonds[x] >= bondVault'.reservedSlash[x]
             /\ OpenCases(x)' # {} =>
                   cases'.authorized[x] /\ bondVault'.withdrawReadyAt[x] = 0
  <2>1. OpenCases(x)' = OpenCases(x)
    BY <1>7, OthersKeepCases DEF Unserved
  <2>2. /\ r.activeAssignments[x] = bondVault.activeAssignments[x]
        /\ r.reservedSlash[x] = bondVault.reservedSlash[x]
        /\ r.bonds[x] = bondVault.bonds[x]
    BY <1>2, <1>7 DEF Moves
  <2>3. bondVault'.withdrawReadyAt = bondVault.withdrawReadyAt
    BY <1>2, <1>3
  <2> QED
    BY <1>3, <2>1, <2>2, <2>3, CoveredBefore
<1>8. BondsCoverCases'
  <2> SUFFICES ASSUME NEW x \in Verifiers
               PROVE  /\ bondVault'.activeAssignments[x] = Cardinality(OpenCases(x)')
                      /\ bondVault'.reservedSlash[x] = Cardinality(OpenCases(x)') * MinimumBond
                      /\ bondVault'.bonds[x] >= bondVault'.reservedSlash[x]
                      /\ OpenCases(x)' # {} =>
                            cases'.authorized[x] /\ bondVault'.withdrawReadyAt[x] = 0
    BY DEF BondsCoverCases
  <2> QED
    BY <1>6, <1>7
<1> QED
  BY <1>4, <1>8

(* A case closed, its arbitrator a released and n of its bond slashed.         *)
Closes(t, a, n) ==
    /\ Open(cases.disputes[t]) /\ cases.disputes[t].arbitrator = a
    /\ ~Open(cases'.disputes[t])
    /\ OthersSame(t) /\ cases'.authorized = cases.authorized
    /\ n <= MinimumBond
    /\ Moves(bondVault, bondVault', a, -1, -MinimumBond, 0 - n)
    /\ bondVault'.withdrawReadyAt = bondVault.withdrawReadyAt

(* A case that ends, with at most one bond slashed, leaves every verifier    *)
(* covered.                                                                  *)
LEMMA CoverClose ==
    ASSUME Assumed, Inv, NEW t \in Tasks, NEW a \in Verifiers, NEW n \in Nat,
           Closes(t, a, n)
    PROVE  BondsCoverCases'
<1>1. /\ Open(cases.disputes[t]) /\ cases.disputes[t].arbitrator = a
      /\ ~Open(cases'.disputes[t])
      /\ OthersSame(t)
  BY DEF Closes
<1>2. /\ n <= MinimumBond
      /\ Moves(bondVault, bondVault', a, -1, -MinimumBond, 0 - n)
  BY DEF Closes
<1>3. /\ cases'.authorized = cases.authorized
      /\ bondVault'.withdrawReadyAt = bondVault.withdrawReadyAt
  BY DEF Closes
<1> DEFINE k == Cardinality(OpenCases(a))
<1>4. MinimumBond \in Nat
  BY ConstantFacts
<1>5. Cardinality(OpenCases(a)') = k - 1 /\ k \in Nat \ {0} /\ OpenCases(a) # {}
  BY <1>1, CaseLost
<1>6. /\ bondVault.bonds[a] \in Nat /\ bondVault.activeAssignments[a] = k
      /\ bondVault.reservedSlash[a] = k * MinimumBond
      /\ bondVault.bonds[a] >= bondVault.reservedSlash[a]
      /\ cases.authorized[a] /\ bondVault.withdrawReadyAt[a] = 0
  <2>1. OpenCases(a) # {} /\ k = Cardinality(OpenCases(a))
    BY <1>5
  <2> QED
    BY <2>1, CoveredBefore
<1>7. /\ bondVault'.activeAssignments[a] = bondVault.activeAssignments[a] + (-1)
      /\ bondVault'.reservedSlash[a] = bondVault.reservedSlash[a] + (-MinimumBond)
      /\ bondVault'.bonds[a] = bondVault.bonds[a] + (0 - n)
      /\ \A x \in Verifiers \ {a} :
            /\ bondVault'.activeAssignments[x] = bondVault.activeAssignments[x]
            /\ bondVault'.reservedSlash[x] = bondVault.reservedSlash[x]
            /\ bondVault'.bonds[x] = bondVault.bonds[x]
  BY <1>2 DEF Moves
<1>8. /\ bondVault'.activeAssignments[a] = Cardinality(OpenCases(a)')
      /\ bondVault'.reservedSlash[a] = Cardinality(OpenCases(a)') * MinimumBond
      /\ bondVault'.bonds[a] >= bondVault'.reservedSlash[a]
  <2> HIDE DEF k
  <2>1. /\ k * MinimumBond + (-MinimumBond) = (k - 1) * MinimumBond
        /\ bondVault.bonds[a] + (0 - n) >= (k - 1) * MinimumBond
    <3>1. bondVault.bonds[a] >= k * MinimumBond
      BY <1>6
    <3>2. bondVault.bonds[a] \in Nat
      BY <1>6
    <3> QED
      BY <1>4, <1>5, <1>2, <3>1, <3>2, OneLessReserved
  <2>2. k + (-1) = k - 1
    BY <1>5
  <2> QED
    BY <1>5, <1>6, <1>7, <2>1, <2>2
<1>9. ASSUME NEW x \in Verifiers, x # a
      PROVE  OpenCases(x)' = OpenCases(x)
  BY <1>1, <1>9, OthersKeepCases DEF Open
<1> SUFFICES ASSUME NEW x \in Verifiers
             PROVE  /\ bondVault'.activeAssignments[x] = Cardinality(OpenCases(x)')
                    /\ bondVault'.reservedSlash[x] = Cardinality(OpenCases(x)') * MinimumBond
                    /\ bondVault'.bonds[x] >= bondVault'.reservedSlash[x]
                    /\ OpenCases(x)' # {} =>
                          cases'.authorized[x] /\ bondVault'.withdrawReadyAt[x] = 0
  BY DEF BondsCoverCases
<1>10. CASE x = a
  BY <1>3, <1>6, <1>8, <1>10
<1>11. CASE x # a
  <2>1. OpenCases(x)' = OpenCases(x)
    BY <1>9, <1>11
  <2>2. x \in Verifiers \ {a}
    BY <1>11
  <2> QED
    <3>1. /\ bondVault'.activeAssignments[x] = bondVault.activeAssignments[x]
          /\ bondVault'.reservedSlash[x] = bondVault.reservedSlash[x]
          /\ bondVault'.bonds[x] = bondVault.bonds[x]
      BY <1>7, <2>2
    <3>2. /\ bondVault.activeAssignments[x] = Cardinality(OpenCases(x))
          /\ bondVault.reservedSlash[x] = Cardinality(OpenCases(x)) * MinimumBond
          /\ bondVault.bonds[x] >= bondVault.reservedSlash[x]
          /\ OpenCases(x) # {} => cases.authorized[x] /\ bondVault.withdrawReadyAt[x] = 0
      BY CoveredBefore
    <3>3. bondVault'.withdrawReadyAt[x] = bondVault.withdrawReadyAt[x]
      BY <1>3
    <3>4. OpenCases(x)' # {} => cases'.authorized[x] /\ bondVault'.withdrawReadyAt[x] = 0
      BY <1>3, <2>1, <3>2, <3>3
    <3> QED
      BY <2>1, <3>1, <3>2, <3>4
<1> QED
  BY <1>10, <1>11

(* A case nobody serves opens, or nothing changes hands.                      *)
LEMMA CoverUnserved ==
    ASSUME Assumed, Inv, NEW t \in Tasks,
           Unserved(t), Unserved(t)',
           OthersSame(t),
           cases'.authorized = cases.authorized, bondVault' = bondVault
    PROVE  BondsCoverCases'
<1> SUFFICES ASSUME NEW x \in Verifiers
             PROVE  /\ bondVault'.activeAssignments[x] = Cardinality(OpenCases(x)')
                    /\ bondVault'.reservedSlash[x] = Cardinality(OpenCases(x)') * MinimumBond
                    /\ bondVault'.bonds[x] >= bondVault'.reservedSlash[x]
                    /\ OpenCases(x)' # {} =>
                          cases'.authorized[x] /\ bondVault'.withdrawReadyAt[x] = 0
  BY DEF BondsCoverCases
<1>1. OpenCases(x)' = OpenCases(x)
  BY OthersKeepCases DEF Unserved
<1> QED
  BY <1>1, CoveredBefore

-------------------------------------------------------------------------------
(* The disputes.                                                             *)

(* From c to r only dispute t changes, in the fields given.                    *)
Turns(c, r, t, arbitrator, evidenceDeadline, rulingDeadline, status, slashed) ==
    /\ CasesGood(r)
    /\ r.authorized = c.authorized
    /\ r.disputes[t].arbitrator = arbitrator
    /\ r.disputes[t].evidenceDeadline = evidenceDeadline
    /\ r.disputes[t].rulingDeadline = rulingDeadline
    /\ r.disputes[t].status = status
    /\ r.disputes[t].slashed = slashed
    /\ \A u \in Tasks \ {t} : r.disputes[u] = c.disputes[u]

(* A change of one dispute, in the terms of Turns.                           *)
LEMMA DisputeTurns ==
    ASSUME NEW c, CasesGood(c), NEW r, NEW t \in Tasks, NEW e, DisputeGood(e),
           DOMAIN r = DOMAIN c, r.panel = c.panel, r.assignmentCursor \in Nat,
           r.authorized = c.authorized, r.disputes = [c.disputes EXCEPT ![t] = e]
    PROVE  Turns(c, r, t, e.arbitrator, e.evidenceDeadline, e.rulingDeadline, e.status,
                 e.slashed)
<1>1. /\ DOMAIN r.disputes = Tasks /\ r.disputes[t] = e
      /\ \A u \in Tasks \ {t} : r.disputes[u] = c.disputes[u]
  BY DEF CasesGood
<1>2. \A u \in Tasks : DisputeGood(r.disputes[u])
  BY <1>1 DEF CasesGood
<1>3. CasesGood(r)
  BY <1>1, <1>2 DEF CasesGood
<1> QED
  BY <1>1, <1>3 DEF Turns

(* openDispute in those terms.                                               *)
LEMMA OpenTurns ==
    ASSUME Assumed, NEW c, CasesGood(c), NEW b, NEW t \in Tasks,
           NEW poster, NEW worker, NEW at \in Nat
    PROVE  Turns(c, OpenDispute(c, b, t, poster, worker, at), t,
                 NextArbitrator(c, b, poster, worker), at + EvidenceWindow, 0, "EVIDENCE", 0)
<1> DEFINE r == OpenDispute(c, b, t, poster, worker, at)
           a == NextArbitrator(c, b, poster, worker)
           n == CursorAfter(c, b, poster, worker)
           e == [NoDispute EXCEPT !.arbitrator = a, !.evidenceDeadline = at + EvidenceWindow,
                                  !.status = "EVIDENCE"]
<1>1. a \in Verifiers \union {Nobody} /\ n \in Nat
  BY NextFacts
<1>2. at + EvidenceWindow \in Nat
  BY ConstantFacts
<1>3. r = [c EXCEPT !.assignmentCursor = n, !.disputes[t] = e]
  BY DEF OpenDispute
<1> HIDE DEF r, a, n
<1>4. /\ {"arbitrator", "evidenceDeadline", "rulingDeadline", "status", "outcome", "slashed"}
            \subseteq DOMAIN e
      /\ e.arbitrator = a /\ e.evidenceDeadline = at + EvidenceWindow
      /\ e.rulingDeadline = 0 /\ e.status = "EVIDENCE" /\ e.slashed = 0
  BY DEF NoDispute
<1> HIDE DEF e
<1>5. DisputeGood(e)
  BY <1>1, <1>2, <1>4 DEF DisputeGood, Status
<1>6. /\ DOMAIN r = DOMAIN c /\ r.panel = c.panel /\ r.assignmentCursor = n
      /\ r.authorized = c.authorized /\ r.disputes = [c.disputes EXCEPT ![t] = e]
  BY <1>3 DEF CasesGood
<1>7. Turns(c, r, t, e.arbitrator, e.evidenceDeadline, e.rulingDeadline, e.status, e.slashed)
  BY <1>1, <1>5, <1>6, DisputeTurns
<1> QED
  BY <1>4, <1>7 DEF r, a

(* The fields of a dispute some of which are written.                         *)
LEMMA DisputeWritten ==
    ASSUME NEW c, CasesGood(c), NEW r, NEW t \in Tasks,
           DOMAIN r = DOMAIN c, r.panel = c.panel, r.assignmentCursor \in Nat,
           r.authorized = c.authorized, DOMAIN r.disputes = Tasks,
           \A u \in Tasks \ {t} : r.disputes[u] = c.disputes[u],
           NEW d, d = r.disputes[t], DOMAIN d = DOMAIN c.disputes[t],
           d.arbitrator \in Verifiers \union {Nobody}, d.evidenceDeadline \in Nat,
           d.rulingDeadline \in Nat, d.status \in Status, d.slashed \in Nat
    PROVE  Turns(c, r, t, d.arbitrator, d.evidenceDeadline, d.rulingDeadline, d.status,
                 d.slashed)
<1>1. DisputeGood(c.disputes[t])
  BY DEF CasesGood
<1>2. DisputeGood(d)
  BY <1>1 DEF DisputeGood
<1>3. \A u \in Tasks : DisputeGood(r.disputes[u])
  BY <1>2 DEF CasesGood
<1>4. CasesGood(r)
  BY <1>3 DEF CasesGood
<1> QED
  BY <1>4 DEF Turns

(* It is assigned in the evidence window only, so no ruling deadline moves.    *)
LEMMA AssignTurns ==
    ASSUME Assumed, NEW c, CasesGood(c), NEW b, NEW t \in Tasks,
           NEW poster, NEW worker, NEW at \in Nat, c.disputes[t].status = "EVIDENCE"
    PROVE  Turns(c, AssignArbitrator(c, b, t, poster, worker, at), t,
                 NextArbitrator(c, b, poster, worker), c.disputes[t].evidenceDeadline,
                 c.disputes[t].rulingDeadline, "EVIDENCE", c.disputes[t].slashed)
<1> DEFINE r == AssignArbitrator(c, b, t, poster, worker, at)
           a == NextArbitrator(c, b, poster, worker)
           n == CursorAfter(c, b, poster, worker)
           m == IF c.disputes[t].status = "RULING" THEN at + RulingWindow
                ELSE c.disputes[t].rulingDeadline
           d == r.disputes[t]
<1>0. /\ {"arbitrator", "evidenceDeadline", "rulingDeadline", "status", "outcome", "slashed"}
            \subseteq DOMAIN c.disputes[t]
      /\ c.disputes[t].arbitrator \in Verifiers \union {Nobody}
      /\ c.disputes[t].evidenceDeadline \in Nat /\ c.disputes[t].rulingDeadline \in Nat
      /\ c.disputes[t].status \in Status /\ c.disputes[t].slashed \in Nat
      /\ DOMAIN c.disputes = Tasks /\ c.assignmentCursor \in Nat
      /\ {"panel", "assignmentCursor", "authorized", "disputes"} \subseteq DOMAIN c
  BY DEF CasesGood, DisputeGood
<1>1. /\ a \in Verifiers \union {Nobody} /\ n \in Nat
      /\ m = c.disputes[t].rulingDeadline
  BY NextFacts
<1>2. r = [c EXCEPT !.assignmentCursor = n, !.disputes[t].arbitrator = a,
                    !.disputes[t].rulingDeadline = m]
  BY DEF AssignArbitrator
<1> HIDE DEF r, a, n, m
<1>3. /\ DOMAIN r = DOMAIN c /\ r.panel = c.panel /\ r.assignmentCursor = n
      /\ r.authorized = c.authorized /\ DOMAIN r.disputes = Tasks
      /\ \A u \in Tasks \ {t} : r.disputes[u] = c.disputes[u]
      /\ DOMAIN d = DOMAIN c.disputes[t]
      /\ d.arbitrator = a /\ d.evidenceDeadline = c.disputes[t].evidenceDeadline
      /\ d.rulingDeadline = c.disputes[t].rulingDeadline
      /\ d.status = c.disputes[t].status /\ d.slashed = c.disputes[t].slashed
  <2> DEFINE one == [c.disputes EXCEPT ![t] = [@ EXCEPT !.arbitrator = a]]
             two == [one EXCEPT ![t] = [@ EXCEPT !.rulingDeadline = m]]
  <2>1. /\ DOMAIN r = DOMAIN c /\ r.panel = c.panel /\ r.assignmentCursor = n
        /\ r.authorized = c.authorized /\ r.disputes = two
    BY <1>2, <1>0
  <2>2. /\ DOMAIN one = Tasks /\ \A u \in Tasks \ {t} : one[u] = c.disputes[u]
        /\ one[t] = [c.disputes[t] EXCEPT !.arbitrator = a]
    BY <1>0
  <2> HIDE DEF one
  <2>3. /\ DOMAIN two = Tasks /\ \A u \in Tasks \ {t} : two[u] = c.disputes[u]
        /\ two[t] = [one[t] EXCEPT !.rulingDeadline = m]
    BY <2>2
  <2> HIDE DEF two
  <2> QED
    BY <2>1, <2>2, <2>3, <1>0, <1>1
<1> HIDE DEF d
<1>4. /\ d = r.disputes[t]
      /\ d.arbitrator \in Verifiers \union {Nobody} /\ d.evidenceDeadline \in Nat
      /\ d.rulingDeadline \in Nat /\ d.status \in Status /\ d.slashed \in Nat
      /\ r.assignmentCursor \in Nat
  BY <1>1, <1>3, <1>0 DEF d
<1>5. Turns(c, r, t, d.arbitrator, d.evidenceDeadline, d.rulingDeadline, d.status, d.slashed)
  BY <1>3, <1>4, DisputeWritten
<1> QED
  BY <1>3, <1>5 DEF r, a

(* beginRuling in those terms.                                               *)
LEMMA BeginTurns ==
    ASSUME Assumed, NEW c, CasesGood(c), NEW t \in Tasks
    PROVE  Turns(c, BeginRuling(c, t), t, c.disputes[t].arbitrator,
                 c.disputes[t].evidenceDeadline,
                 c.disputes[t].evidenceDeadline + RulingWindow, "RULING",
                 c.disputes[t].slashed)
<1> DEFINE r == BeginRuling(c, t)
           m == c.disputes[t].evidenceDeadline + RulingWindow
           d == r.disputes[t]
<1>0. /\ {"arbitrator", "evidenceDeadline", "rulingDeadline", "status", "outcome", "slashed"}
            \subseteq DOMAIN c.disputes[t]
      /\ c.disputes[t].arbitrator \in Verifiers \union {Nobody}
      /\ c.disputes[t].evidenceDeadline \in Nat /\ c.disputes[t].rulingDeadline \in Nat
      /\ c.disputes[t].status \in Status /\ c.disputes[t].slashed \in Nat
      /\ DOMAIN c.disputes = Tasks /\ c.assignmentCursor \in Nat
      /\ {"panel", "assignmentCursor", "authorized", "disputes"} \subseteq DOMAIN c
  BY DEF CasesGood, DisputeGood
<1>1. m \in Nat /\ "RULING" \in Status
  BY ConstantFacts, <1>0 DEF Status
<1>2. r = [c EXCEPT !.disputes[t].status = "RULING", !.disputes[t].rulingDeadline = m]
  BY DEF BeginRuling
<1> HIDE DEF r, m
<1>3. /\ DOMAIN r = DOMAIN c /\ r.panel = c.panel /\ r.assignmentCursor = c.assignmentCursor
      /\ r.authorized = c.authorized /\ DOMAIN r.disputes = Tasks
      /\ \A u \in Tasks \ {t} : r.disputes[u] = c.disputes[u]
      /\ DOMAIN d = DOMAIN c.disputes[t]
      /\ d.arbitrator = c.disputes[t].arbitrator
      /\ d.evidenceDeadline = c.disputes[t].evidenceDeadline
      /\ d.rulingDeadline = m
      /\ d.status = "RULING" /\ d.slashed = c.disputes[t].slashed
  <2> DEFINE one == [c.disputes EXCEPT ![t] = [@ EXCEPT !.status = "RULING"]]
             two == [one EXCEPT ![t] = [@ EXCEPT !.rulingDeadline = m]]
  <2>1. /\ DOMAIN r = DOMAIN c /\ r.panel = c.panel /\ r.assignmentCursor = c.assignmentCursor
        /\ r.authorized = c.authorized /\ r.disputes = two
    BY <1>2, <1>0
  <2>2. /\ DOMAIN one = Tasks /\ \A u \in Tasks \ {t} : one[u] = c.disputes[u]
        /\ one[t] = [c.disputes[t] EXCEPT !.status = "RULING"]
    BY <1>0
  <2> HIDE DEF one
  <2>3. /\ DOMAIN two = Tasks /\ \A u \in Tasks \ {t} : two[u] = c.disputes[u]
        /\ two[t] = [one[t] EXCEPT !.rulingDeadline = m]
    BY <2>2
  <2> HIDE DEF two
  <2> QED
    BY <2>1, <2>2, <2>3, <1>0
<1> HIDE DEF d
<1>4. /\ d = r.disputes[t]
      /\ d.arbitrator \in Verifiers \union {Nobody} /\ d.evidenceDeadline \in Nat
      /\ d.rulingDeadline \in Nat /\ d.status \in Status /\ d.slashed \in Nat
      /\ r.assignmentCursor \in Nat
  BY <1>1, <1>3, <1>0 DEF d
<1>5. Turns(c, r, t, d.arbitrator, d.evidenceDeadline, d.rulingDeadline, d.status, d.slashed)
  BY <1>3, <1>4, DisputeWritten
<1> QED
  BY <1>3, <1>5 DEF r, m

(* rule, of a case whose ruling has begun, in those terms.                   *)
LEMMA RuleTurns ==
    ASSUME Assumed, NEW c, CasesGood(c), NEW t \in Tasks, NEW outcome,
           c.disputes[t].status # "EVIDENCE"
    PROVE  Turns(c, Rule(c, t, outcome), t, c.disputes[t].arbitrator,
                 c.disputes[t].evidenceDeadline, c.disputes[t].rulingDeadline, "SETTLED",
                 c.disputes[t].slashed)
<1> DEFINE r == Rule(c, t, outcome)
           d == r.disputes[t]
<1>0. /\ {"arbitrator", "evidenceDeadline", "rulingDeadline", "status", "outcome", "slashed"}
            \subseteq DOMAIN c.disputes[t]
      /\ c.disputes[t].arbitrator \in Verifiers \union {Nobody}
      /\ c.disputes[t].evidenceDeadline \in Nat /\ c.disputes[t].rulingDeadline \in Nat
      /\ c.disputes[t].status \in Status /\ c.disputes[t].slashed \in Nat
      /\ DOMAIN c.disputes = Tasks /\ c.assignmentCursor \in Nat
      /\ {"panel", "assignmentCursor", "authorized", "disputes"} \subseteq DOMAIN c
  BY DEF CasesGood, DisputeGood
<1>1. "SETTLED" \in Status
  BY DEF Status
<1>2. r = [c EXCEPT !.disputes[t].status = "SETTLED", !.disputes[t].outcome = outcome]
  BY DEF Rule, Ruling
<1> HIDE DEF r
<1>3. /\ DOMAIN r = DOMAIN c /\ r.panel = c.panel /\ r.assignmentCursor = c.assignmentCursor
      /\ r.authorized = c.authorized /\ DOMAIN r.disputes = Tasks
      /\ \A u \in Tasks \ {t} : r.disputes[u] = c.disputes[u]
      /\ DOMAIN d = DOMAIN c.disputes[t]
      /\ d.arbitrator = c.disputes[t].arbitrator
      /\ d.evidenceDeadline = c.disputes[t].evidenceDeadline
      /\ d.rulingDeadline = c.disputes[t].rulingDeadline
      /\ d.status = "SETTLED" /\ d.slashed = c.disputes[t].slashed
  <2> DEFINE one == [c.disputes EXCEPT ![t] = [@ EXCEPT !.status = "SETTLED"]]
             two == [one EXCEPT ![t] = [@ EXCEPT !.outcome = outcome]]
  <2>1. /\ DOMAIN r = DOMAIN c /\ r.panel = c.panel /\ r.assignmentCursor = c.assignmentCursor
        /\ r.authorized = c.authorized /\ r.disputes = two
    BY <1>2, <1>0
  <2>2. /\ DOMAIN one = Tasks /\ \A u \in Tasks \ {t} : one[u] = c.disputes[u]
        /\ one[t] = [c.disputes[t] EXCEPT !.status = "SETTLED"]
    BY <1>0
  <2> HIDE DEF one
  <2>3. /\ DOMAIN two = Tasks /\ \A u \in Tasks \ {t} : two[u] = c.disputes[u]
        /\ two[t] = [one[t] EXCEPT !.outcome = outcome]
    BY <2>2
  <2> HIDE DEF two
  <2> QED
    BY <2>1, <2>2, <2>3, <1>0
<1> HIDE DEF d
<1>4. /\ d = r.disputes[t]
      /\ d.arbitrator \in Verifiers \union {Nobody} /\ d.evidenceDeadline \in Nat
      /\ d.rulingDeadline \in Nat /\ d.status \in Status /\ d.slashed \in Nat
      /\ r.assignmentCursor \in Nat
  BY <1>1, <1>3, <1>0 DEF d
<1>5. Turns(c, r, t, d.arbitrator, d.evidenceDeadline, d.rulingDeadline, d.status, d.slashed)
  BY <1>3, <1>4, DisputeWritten
<1> QED
  BY <1>3, <1>5 DEF r

(* timeout in those terms; its outcome is MUTUAL.                            *)
LEMMA TimeoutTurns ==
    ASSUME Assumed, NEW c, CasesGood(c), NEW b, NEW t \in Tasks,
           SlashAmount(c, b, t) \in Nat
    PROVE  /\ Turns(c, Timeout(c, b, t), t, c.disputes[t].arbitrator,
                    c.disputes[t].evidenceDeadline, c.disputes[t].rulingDeadline, "SETTLED",
                    c.disputes[t].slashed + SlashAmount(c, b, t))
           /\ Timeout(c, b, t).disputes[t].outcome = "MUTUAL"
<1> DEFINE r == Timeout(c, b, t)
           n == c.disputes[t].slashed + SlashAmount(c, b, t)
           d == r.disputes[t]
<1>0. /\ {"arbitrator", "evidenceDeadline", "rulingDeadline", "status", "outcome", "slashed"}
            \subseteq DOMAIN c.disputes[t]
      /\ c.disputes[t].arbitrator \in Verifiers \union {Nobody}
      /\ c.disputes[t].evidenceDeadline \in Nat /\ c.disputes[t].rulingDeadline \in Nat
      /\ c.disputes[t].status \in Status /\ c.disputes[t].slashed \in Nat
      /\ DOMAIN c.disputes = Tasks /\ c.assignmentCursor \in Nat
      /\ {"panel", "assignmentCursor", "authorized", "disputes"} \subseteq DOMAIN c
  BY DEF CasesGood, DisputeGood
<1>1. "SETTLED" \in Status /\ n \in Nat
  BY <1>0 DEF Status
<1>2. r = [c EXCEPT !.disputes[t].status = "SETTLED", !.disputes[t].outcome = "MUTUAL",
                    !.disputes[t].slashed = n]
  BY DEF Timeout
<1> HIDE DEF r, n
<1>3. /\ DOMAIN r = DOMAIN c /\ r.panel = c.panel /\ r.assignmentCursor = c.assignmentCursor
      /\ r.authorized = c.authorized /\ DOMAIN r.disputes = Tasks
      /\ \A u \in Tasks \ {t} : r.disputes[u] = c.disputes[u]
      /\ DOMAIN d = DOMAIN c.disputes[t]
      /\ d.arbitrator = c.disputes[t].arbitrator
      /\ d.evidenceDeadline = c.disputes[t].evidenceDeadline
      /\ d.rulingDeadline = c.disputes[t].rulingDeadline
      /\ d.status = "SETTLED" /\ d.slashed = n
      /\ d.outcome = "MUTUAL"
  <2> DEFINE one == [c.disputes EXCEPT ![t] = [@ EXCEPT !.status = "SETTLED"]]
             two == [one EXCEPT ![t] = [@ EXCEPT !.outcome = "MUTUAL"]]
             three == [two EXCEPT ![t] = [@ EXCEPT !.slashed = n]]
  <2>1. /\ DOMAIN r = DOMAIN c /\ r.panel = c.panel /\ r.assignmentCursor = c.assignmentCursor
        /\ r.authorized = c.authorized /\ r.disputes = three
    BY <1>2, <1>0
  <2>2. /\ DOMAIN one = Tasks /\ \A u \in Tasks \ {t} : one[u] = c.disputes[u]
        /\ one[t] = [c.disputes[t] EXCEPT !.status = "SETTLED"]
    BY <1>0
  <2> HIDE DEF one
  <2>3. /\ DOMAIN two = Tasks /\ \A u \in Tasks \ {t} : two[u] = c.disputes[u]
        /\ two[t] = [one[t] EXCEPT !.outcome = "MUTUAL"]
    BY <2>2
  <2> HIDE DEF two
  <2>4. /\ DOMAIN three = Tasks /\ \A u \in Tasks \ {t} : three[u] = c.disputes[u]
        /\ three[t] = [two[t] EXCEPT !.slashed = n]
    BY <2>3
  <2> HIDE DEF three
  <2> QED
    BY <2>1, <2>2, <2>3, <2>4, <1>0
<1> HIDE DEF d
<1>4. /\ d = r.disputes[t]
      /\ d.arbitrator \in Verifiers \union {Nobody} /\ d.evidenceDeadline \in Nat
      /\ d.rulingDeadline \in Nat /\ d.status \in Status /\ d.slashed \in Nat
      /\ r.assignmentCursor \in Nat
  BY <1>1, <1>3, <1>0 DEF d
<1>5. Turns(c, r, t, d.arbitrator, d.evidenceDeadline, d.rulingDeadline, d.status, d.slashed)
  BY <1>3, <1>4, DisputeWritten
<1> QED
  BY <1>3, <1>4, <1>5 DEF r, n

-------------------------------------------------------------------------------
(* The steps.                                                                *)

(* A dispute no step touched keeps its deadlines in order and its            *)
(* arbitrator impartial.                                                     *)
LEMMA Untouched ==
    ASSUME Inv, NEW t \in Tasks, now' = now,
           OthersSame(t),
           NEW u \in Tasks, u # t
    PROVE  /\ OnTime(cases.disputes[u])'
           /\ (cases.disputes[u].arbitrator \notin {PosterOf[u], WorkerOf[u]} \ {Nobody})'
<1>1. cases'.disputes[u] = cases.disputes[u]
  BY DEF OthersSame
<1>2. OnTime(cases.disputes[u])
  BY DEF Inv
<1>3. cases.disputes[u].arbitrator \notin {PosterOf[u], WorkerOf[u]} \ {Nobody}
  BY DEF Inv, NobodyJudgesOwnCase
<1> QED
  BY <1>1, <1>2, <1>3 DEF OnTime, Open

(* What is left to show when dispute t alone has changed.                     *)
LEMMA DisputeStep ==
    ASSUME Inv, NEW t \in Tasks, now' = now, CasesGood(cases'),
           OthersSame(t),
           OnTime(cases.disputes[t])',
           cases'.disputes[t].arbitrator \notin {PosterOf[t], WorkerOf[t]} \ {Nobody},
           BondsGood(bondVault'), Funded(bondVault'), BondsCoverCases'
    PROVE  Inv'
<1>1. \A u \in Tasks : OnTime(cases.disputes[u])'
  BY Untouched
<1>2. NobodyJudgesOwnCase'
  BY Untouched DEF NobodyJudgesOwnCase
<1>3. now' \in Nat /\ CasesGood(cases)' /\ BondsGood(bondVault)' /\ Funded(bondVault)'
  BY DEF Inv
<1> QED
  BY <1>1, <1>2, <1>3 DEF Inv

(* With the same disputes, the same cases are open and with the same         *)
(* arbitrators.                                                              *)
LEMMA SameDisputes ==
    ASSUME cases'.disputes = cases.disputes
    PROVE  \A t \in Tasks : /\ Open(cases'.disputes[t]) <=> Open(cases.disputes[t])
                            /\ cases'.disputes[t].arbitrator = cases.disputes[t].arbitrator
<1> SUFFICES ASSUME NEW t \in Tasks
             PROVE  /\ Open(cases'.disputes[t]) <=> Open(cases.disputes[t])
                    /\ cases'.disputes[t].arbitrator = cases.disputes[t].arbitrator
  OBVIOUS
<1>1. cases'.disputes[t] = cases.disputes[t]
  OBVIOUS
<1> QED
  BY <1>1 DEF Open

(* With the same disputes, deadlines stay in order and arbitrators           *)
(* impartial.                                                                *)
LEMMA SameJudges ==
    ASSUME Inv, now' = now, cases'.disputes = cases.disputes
    PROVE  (\A u \in Tasks : OnTime(cases.disputes[u]))' /\ NobodyJudgesOwnCase'
<1>1. ASSUME NEW u \in Tasks
      PROVE  /\ OnTime(cases.disputes[u])'
             /\ cases'.disputes[u].arbitrator \notin {PosterOf[u], WorkerOf[u]} \ {Nobody}
  <2>1. cases'.disputes[u] = cases.disputes[u]
    OBVIOUS
  <2>2. OnTime(cases.disputes[u])
    BY DEF Inv
  <2>3. cases.disputes[u].arbitrator \notin {PosterOf[u], WorkerOf[u]} \ {Nobody}
    BY DEF Inv, NobodyJudgesOwnCase
  <2> QED
    BY <2>1, <2>2, <2>3 DEF OnTime, Open
<1> QED
  BY <1>1 DEF NobodyJudgesOwnCase

(* Nobody's assignments change, and bonds still cover them.                   *)
KeepsCover ==
    \A x \in Verifiers :
        /\ bondVault'.activeAssignments[x] = bondVault.activeAssignments[x]
        /\ bondVault'.reservedSlash[x] = bondVault.reservedSlash[x]
        /\ bondVault'.bonds[x] >= bondVault'.reservedSlash[x]
        /\ OpenCases(x) # {} => cases'.authorized[x] /\ bondVault'.withdrawReadyAt[x] = 0

(* And when no dispute has, and nobody's assignments.                          *)
LEMMA PanelStep ==
    ASSUME Assumed, Inv, now' = now, CasesGood(cases'),
           cases'.disputes = cases.disputes,
           BondsGood(bondVault'), Funded(bondVault'),
           KeepsCover
    PROVE  Inv'
<1>1. BondsCoverCases'
  <2>1. \A t \in Tasks : /\ Open(cases'.disputes[t]) <=> Open(cases.disputes[t])
                         /\ cases'.disputes[t].arbitrator = cases.disputes[t].arbitrator
    BY SameDisputes
  <2> SUFFICES ASSUME NEW x \in Verifiers
               PROVE  /\ bondVault'.activeAssignments[x] = Cardinality(OpenCases(x)')
                      /\ bondVault'.reservedSlash[x] = Cardinality(OpenCases(x)') * MinimumBond
                      /\ bondVault'.bonds[x] >= bondVault'.reservedSlash[x]
                      /\ OpenCases(x)' # {} =>
                            cases'.authorized[x] /\ bondVault'.withdrawReadyAt[x] = 0
    BY DEF BondsCoverCases
  <2>2. OpenCases(x)' = OpenCases(x)
    BY <2>1, SameOpenCases
  <2>3. /\ bondVault.activeAssignments[x] = Cardinality(OpenCases(x))
        /\ bondVault.reservedSlash[x] = Cardinality(OpenCases(x)) * MinimumBond
    BY CoveredBefore
  <2>4. /\ bondVault'.activeAssignments[x] = bondVault.activeAssignments[x]
        /\ bondVault'.reservedSlash[x] = bondVault.reservedSlash[x]
        /\ bondVault'.bonds[x] >= bondVault'.reservedSlash[x]
        /\ OpenCases(x) # {} => cases'.authorized[x] /\ bondVault'.withdrawReadyAt[x] = 0
    BY DEF KeepsCover
  <2> QED
    BY <2>2, <2>3, <2>4
<1>2. (\A u \in Tasks : OnTime(cases.disputes[u]))' /\ NobodyJudgesOwnCase'
  BY SameJudges
<1>3. now' \in Nat /\ CasesGood(cases)' /\ BondsGood(bondVault)' /\ Funded(bondVault)'
  BY DEF Inv
<1> QED
  BY <1>1, <1>2, <1>3 DEF Inv

(* The invariant holds at the start, whatever has been bonded by then.           *)
LEMMA StartGood ==
    ASSUME Assumed, cases = StartCases, now = 1, BondsGood(bondVault), Funded(bondVault),
           \A x \in Verifiers : bondVault.activeAssignments[x] = 0 /\ bondVault.reservedSlash[x] = 0
    PROVE  Inv
<1>1. \A t \in Tasks : cases.disputes[t] = NoDispute
  BY DEF StartCases
<1>2. /\ NoDispute.arbitrator = Nobody /\ NoDispute.evidenceDeadline = 0
      /\ NoDispute.rulingDeadline = 0 /\ NoDispute.status = "NONE" /\ NoDispute.slashed = 0
      /\ DOMAIN NoDispute = {"arbitrator", "evidenceDeadline", "rulingDeadline", "status",
                             "outcome", "slashed"}
  BY DEF NoDispute
<1>3. \A t \in Tasks : ~Open(cases.disputes[t]) /\ OnTime(cases.disputes[t])
  BY <1>1, <1>2 DEF Open, OnTime
<1>4. CasesGood(cases)
  <2>1. DisputeGood(NoDispute)
    BY <1>2 DEF DisputeGood, Status
  <2>2. cases.panel \in Seq(Verifiers \union {Nobody})
    BY ConstantFacts DEF StartCases
  <2> QED
    BY <1>1, <2>1, <2>2 DEF StartCases, CasesGood
<1>5. BondsCoverCases
  <2> SUFFICES ASSUME NEW x \in Verifiers
               PROVE  /\ bondVault.activeAssignments[x] = Cardinality(OpenCases(x))
                      /\ bondVault.reservedSlash[x] = Cardinality(OpenCases(x)) * MinimumBond
                      /\ bondVault.bonds[x] >= bondVault.reservedSlash[x]
                      /\ OpenCases(x) = {}
    BY DEF BondsCoverCases
  <2>1. OpenCases(x) = {}
    BY <1>3 DEF OpenCases
  <2>2. Cardinality(OpenCases(x)) = 0 /\ MinimumBond \in Nat
    BY <2>1, FS_EmptySet, ConstantFacts
  <2>3. /\ bondVault.activeAssignments[x] = 0 /\ bondVault.reservedSlash[x] = 0
        /\ bondVault.bonds[x] \in Nat
    BY DEF BondsGood
  <2> QED
    BY <2>1, <2>2, <2>3
<1>6. NobodyJudgesOwnCase
  BY <1>1, <1>2 DEF NobodyJudgesOwnCase
<1> QED
  BY <1>3, <1>4, <1>5, <1>6 DEF Inv

(* The invariant holds at the start.                                         *)
LEMMA InitGood ==
    ASSUME Assumed, Init
    PROVE  Inv
<1>1. BondsGood(bondVault) /\ Funded(bondVault)
  BY DEF Init, Bonds!EmptyBondVault, BondsGood, Funded
<1>2. \A x \in Verifiers : bondVault.activeAssignments[x] = 0 /\ bondVault.reservedSlash[x] = 0
  BY DEF Init, Bonds!EmptyBondVault
<1> QED
  BY <1>1, <1>2, StartGood DEF Init

(* Posting a bond keeps the invariant.                                       *)
LEMMA PostBondStep ==
    ASSUME Assumed, Inv, NEW x \in Verifiers, NEW n \in Nat, PostBond(x, n)
    PROVE  Inv'
<1> DEFINE r == Bonds!Bond(bondVault, x, n)
<1>1. cases' = cases /\ now' = now /\ bondVault' = r
  BY DEF PostBond
<1>2. /\ Moves(bondVault, r, x, 0, 0, n) /\ Funded(r) /\ r.withdrawReadyAt[x] = 0
      /\ \A y \in Verifiers \ {x} : r.withdrawReadyAt[y] = bondVault.withdrawReadyAt[y]
  BY BondFacts DEF Inv
<1> HIDE DEF r
<1>3. ASSUME NEW y \in Verifiers
      PROVE  /\ r.activeAssignments[y] = bondVault.activeAssignments[y]
             /\ r.reservedSlash[y] = bondVault.reservedSlash[y]
             /\ r.bonds[y] >= r.reservedSlash[y]
             /\ OpenCases(y) # {} => cases.authorized[y] /\ r.withdrawReadyAt[y] = 0
  <2>1. /\ bondVault.bonds[y] \in Nat /\ bondVault.activeAssignments[y] \in Nat
        /\ bondVault.reservedSlash[y] \in Nat
    BY DEF Inv, BondsGood
  <2>2. /\ bondVault.bonds[y] >= bondVault.reservedSlash[y]
        /\ OpenCases(y) # {} => cases.authorized[y] /\ bondVault.withdrawReadyAt[y] = 0
    BY CoveredBefore
  <2>3. CASE y = x
    BY <1>2, <2>1, <2>2, <2>3 DEF Moves
  <2>4. CASE y # x
    BY <1>2, <2>1, <2>2, <2>4 DEF Moves
  <2> QED
    BY <2>3, <2>4
<1>4. BondsGood(r) /\ CasesGood(cases)
  BY <1>2 DEF Moves, Inv
<1>5. KeepsCover
  BY <1>1, <1>2, <1>3 DEF KeepsCover
<1>6. /\ CasesGood(cases') /\ cases'.disputes = cases.disputes
      /\ BondsGood(bondVault') /\ Funded(bondVault')
  BY <1>1, <1>2, <1>4
<1> QED
  BY <1>1, <1>5, <1>6, PanelStep

(* Who schedules a withdrawal has no case.                                    *)
LEMMA ScheduleStep ==
    ASSUME Assumed, Inv, NEW x \in Verifiers, VerifierSchedules(x)
    PROVE  Inv'
<1> DEFINE r == Bonds!ScheduleWithdrawal(bondVault, x, now)
<1>1. /\ cases' = cases /\ now' = now /\ bondVault' = r
      /\ bondVault.activeAssignments[x] = 0
  BY DEF VerifierSchedules, Bonds!CanScheduleWithdrawal
<1>2. WithdrawalCooldown \in Nat /\ now \in Nat
  BY ConstantFacts DEF Inv
<1>3. /\ Moves(bondVault, r, x, 0, 0, 0) /\ Funded(r)
      /\ \A y \in Verifiers \ {x} : r.withdrawReadyAt[y] = bondVault.withdrawReadyAt[y]
  BY <1>2, ScheduleFacts DEF Inv
<1>4. OpenCases(x) = {}
  BY <1>1, IdleHasNoCase
<1> HIDE DEF r
<1>5. ASSUME NEW y \in Verifiers
      PROVE  /\ r.activeAssignments[y] = bondVault.activeAssignments[y]
             /\ r.reservedSlash[y] = bondVault.reservedSlash[y]
             /\ r.bonds[y] >= r.reservedSlash[y]
             /\ OpenCases(y) # {} => cases.authorized[y] /\ r.withdrawReadyAt[y] = 0
  <2>1. /\ bondVault.bonds[y] \in Nat /\ bondVault.activeAssignments[y] \in Nat
        /\ bondVault.reservedSlash[y] \in Nat
    BY DEF Inv, BondsGood
  <2>2. /\ bondVault.bonds[y] >= bondVault.reservedSlash[y]
        /\ OpenCases(y) # {} => cases.authorized[y] /\ bondVault.withdrawReadyAt[y] = 0
    BY CoveredBefore
  <2>3. CASE y = x
    BY <1>3, <1>4, <2>1, <2>2, <2>3 DEF Moves
  <2>4. CASE y # x
    BY <1>3, <2>1, <2>2, <2>4 DEF Moves
  <2> QED
    BY <2>3, <2>4
<1>6. BondsGood(r) /\ CasesGood(cases)
  BY <1>3 DEF Moves, Inv
<1>7. KeepsCover
  BY <1>1, <1>3, <1>5 DEF KeepsCover
<1>8. /\ CasesGood(cases') /\ cases'.disputes = cases.disputes
      /\ BondsGood(bondVault') /\ Funded(bondVault')
  BY <1>1, <1>3, <1>6
<1> QED
  BY <1>1, <1>7, <1>8, PanelStep

(* So does withdrawing one.                                                  *)
LEMMA WithdrawStep ==
    ASSUME Assumed, Inv, NEW x \in Verifiers, NEW n \in Nat,
           VerifierWithdraws(x, n)
    PROVE  Inv'
<1> DEFINE r == Bonds!WithdrawBond(bondVault, x, n)
<1>1. /\ cases' = cases /\ now' = now /\ bondVault' = r
      /\ bondVault.activeAssignments[x] = 0
      /\ n <= bondVault.bonds[x] /\ n <= bondVault.totalBonded /\ n <= bondVault.balance
  BY DEF VerifierWithdraws, Bonds!CanWithdrawBond
<1>2. /\ Moves(bondVault, r, x, 0, 0, -n) /\ Funded(r) /\ r.withdrawReadyAt[x] = 0
      /\ \A y \in Verifiers \ {x} : r.withdrawReadyAt[y] = bondVault.withdrawReadyAt[y]
  BY <1>1, WithdrawFacts DEF Inv
<1>3. OpenCases(x) = {} /\ bondVault.reservedSlash[x] = 0
  <2>1. /\ bondVault.activeAssignments[x] = Cardinality(OpenCases(x))
        /\ bondVault.reservedSlash[x] = Cardinality(OpenCases(x)) * MinimumBond
    BY CoveredBefore
  <2>2. 0 * MinimumBond = 0
    BY ConstantFacts
  <2> QED
    BY <1>1, <2>1, <2>2, IdleHasNoCase
<1> HIDE DEF r
<1>4. ASSUME NEW y \in Verifiers
      PROVE  /\ r.activeAssignments[y] = bondVault.activeAssignments[y]
             /\ r.reservedSlash[y] = bondVault.reservedSlash[y]
             /\ r.bonds[y] >= r.reservedSlash[y]
             /\ OpenCases(y) # {} => cases.authorized[y] /\ r.withdrawReadyAt[y] = 0
  <2>1. /\ bondVault.bonds[y] \in Nat /\ bondVault.activeAssignments[y] \in Nat
        /\ bondVault.reservedSlash[y] \in Nat
    BY DEF Inv, BondsGood
  <2>2. /\ bondVault.bonds[y] >= bondVault.reservedSlash[y]
        /\ OpenCases(y) # {} => cases.authorized[y] /\ bondVault.withdrawReadyAt[y] = 0
    BY CoveredBefore
  <2>3. CASE y = x
    BY <1>1, <1>2, <1>3, <2>1, <2>3 DEF Moves
  <2>4. CASE y # x
    BY <1>2, <2>1, <2>2, <2>4 DEF Moves
  <2> QED
    BY <2>3, <2>4
<1>5. BondsGood(r) /\ CasesGood(cases)
  BY <1>2 DEF Moves, Inv
<1>6. KeepsCover
  BY <1>1, <1>4 DEF KeepsCover
<1>7. /\ CasesGood(cases') /\ cases'.disputes = cases.disputes
      /\ BondsGood(bondVault') /\ Funded(bondVault')
  <2>1. cases' = cases /\ CasesGood(cases)
    BY <1>1, <1>5
  <2>2. bondVault' = r /\ BondsGood(r) /\ Funded(r)
    BY <1>1, <1>2, <1>5
  <2> QED
    BY <2>1, <2>2
<1> QED
  BY <1>1, <1>6, <1>7, PanelStep

(* So does the treasury pulling what it is owed.                             *)
LEMMA PullStep ==
    ASSUME Assumed, Inv, TreasuryPulls
    PROVE  Inv'
<1> DEFINE r == Bonds!ClaimSlash(bondVault)
<1>1. /\ cases' = cases /\ now' = now /\ bondVault' = r /\ Bonds!CanClaimSlash(bondVault)
  BY DEF TreasuryPulls
<1>2. /\ BondsGood(r) /\ Funded(r)
      /\ r.activeAssignments = bondVault.activeAssignments
      /\ r.reservedSlash = bondVault.reservedSlash /\ r.bonds = bondVault.bonds
      /\ r.withdrawReadyAt = bondVault.withdrawReadyAt
  BY <1>1, ClaimFacts DEF Inv
<1> HIDE DEF r
<1>3. ASSUME NEW y \in Verifiers
      PROVE  /\ bondVault.bonds[y] >= bondVault.reservedSlash[y]
             /\ OpenCases(y) # {} => cases.authorized[y] /\ bondVault.withdrawReadyAt[y] = 0
  BY CoveredBefore
<1>4. CasesGood(cases)
  BY DEF Inv
<1>5. KeepsCover
  BY <1>1, <1>2, <1>3 DEF KeepsCover
<1>6. /\ CasesGood(cases') /\ cases'.disputes = cases.disputes
      /\ BondsGood(bondVault') /\ Funded(bondVault')
  BY <1>1, <1>2, <1>4
<1> QED
  BY <1>1, <1>5, <1>6, PanelStep

(* So does the owner adding a member.                                        *)
LEMMA AddStep ==
    ASSUME Assumed, Inv, NEW x \in Verifiers, OwnerAdds(x)
    PROVE  Inv'
<1> DEFINE r == AddPanelMember(cases, x)
<1>1. cases' = r /\ bondVault' = bondVault /\ now' = now
  BY DEF OwnerAdds
<1>2. /\ DOMAIN r = DOMAIN cases /\ r.panel = Append(cases.panel, x)
      /\ r.assignmentCursor = cases.assignmentCursor /\ r.disputes = cases.disputes
      /\ r.authorized = [cases.authorized EXCEPT ![x] = TRUE]
  BY DEF AddPanelMember, Inv, CasesGood
<1> HIDE DEF r
<1>3. r.panel \in Seq(Verifiers \union {Nobody})
  <2>1. cases.panel \in Seq(Verifiers \union {Nobody})
    BY DEF Inv, CasesGood
  <2> QED
    BY <1>2, <2>1
<1>4. r.authorized \in [Verifiers -> BOOLEAN]
  BY <1>2 DEF Inv, CasesGood
<1>5. CasesGood(r)
  BY <1>2, <1>3, <1>4 DEF Inv, CasesGood
<1>6. ASSUME NEW y \in Verifiers
      PROVE  /\ bondVault.bonds[y] >= bondVault.reservedSlash[y]
             /\ OpenCases(y) # {} => r.authorized[y] /\ bondVault.withdrawReadyAt[y] = 0
  <2>1. /\ bondVault.bonds[y] >= bondVault.reservedSlash[y]
        /\ OpenCases(y) # {} => cases.authorized[y] /\ bondVault.withdrawReadyAt[y] = 0
    BY CoveredBefore
  <2>2. cases.authorized \in [Verifiers -> BOOLEAN]
    BY DEF Inv, CasesGood
  <2>3. cases.authorized[y] => r.authorized[y]
    BY <1>2, <2>2
  <2> QED
    BY <2>1, <2>3
<1>7. BondsGood(bondVault) /\ Funded(bondVault)
  BY DEF Inv
<1>8. KeepsCover
  BY <1>1, <1>6 DEF KeepsCover
<1>9. /\ CasesGood(cases') /\ cases'.disputes = cases.disputes
      /\ BondsGood(bondVault') /\ Funded(bondVault')
  BY <1>1, <1>2, <1>5, <1>7
<1> QED
  BY <1>1, <1>8, <1>9, PanelStep

(* Who is removed has no case.                                                *)
LEMMA RemoveStep ==
    ASSUME Assumed, Inv, NEW x \in Verifiers, OwnerRemoves(x)
    PROVE  Inv'
<1> DEFINE r == RemovePanelMember(cases, x)
           left == [i \in DOMAIN cases.panel |->
                      IF cases.panel[i] = x THEN Nobody ELSE cases.panel[i]]
<1>1. cases' = r /\ bondVault' = bondVault /\ now' = now /\ ~Bonds!CanRelease(bondVault, x)
  BY DEF OwnerRemoves, CanRemovePanelMember
<1>2. /\ DOMAIN r = DOMAIN cases /\ r.panel = left
      /\ r.assignmentCursor = cases.assignmentCursor /\ r.disputes = cases.disputes
      /\ r.authorized = [cases.authorized EXCEPT ![x] = FALSE]
  BY DEF RemovePanelMember, Inv, CasesGood
<1> HIDE DEF r
<1>3. left \in Seq(Verifiers \union {Nobody})
  <2>1. cases.panel \in Seq(Verifiers \union {Nobody})
    BY DEF Inv, CasesGood
  <2> HIDE DEF left
  <2>2. /\ DOMAIN cases.panel = 1..Len(cases.panel) /\ Len(cases.panel) \in Nat
        /\ \A i \in 1..Len(cases.panel) : cases.panel[i] \in Verifiers \union {Nobody}
    BY <2>1
  <2>3. left \in [1..Len(cases.panel) -> Verifiers \union {Nobody}]
    BY <2>2 DEF left
  <2> QED
    BY <2>2, <2>3
<1> HIDE DEF left
<1>4. r.authorized \in [Verifiers -> BOOLEAN]
  BY <1>2 DEF Inv, CasesGood
<1>5. CasesGood(r)
  BY <1>2, <1>3, <1>4 DEF Inv, CasesGood
<1>6. OpenCases(x) = {}
  <2>1. bondVault.activeAssignments[x] \in Nat
    BY DEF Inv, BondsGood
  <2>2. bondVault.activeAssignments[x] = 0
    BY <1>1, <2>1 DEF Bonds!CanRelease
  <2> QED
    BY <2>2, IdleHasNoCase
<1>7. ASSUME NEW y \in Verifiers
      PROVE  /\ bondVault.bonds[y] >= bondVault.reservedSlash[y]
             /\ OpenCases(y) # {} => r.authorized[y] /\ bondVault.withdrawReadyAt[y] = 0
  <2>1. /\ bondVault.bonds[y] >= bondVault.reservedSlash[y]
        /\ OpenCases(y) # {} => cases.authorized[y] /\ bondVault.withdrawReadyAt[y] = 0
    BY CoveredBefore
  <2>2. cases.authorized \in [Verifiers -> BOOLEAN]
    BY DEF Inv, CasesGood
  <2>3. y # x => r.authorized[y] = cases.authorized[y]
    BY <1>2, <2>2
  <2> QED
    BY <1>6, <2>1, <2>3
<1>8. BondsGood(bondVault) /\ Funded(bondVault)
  BY DEF Inv
<1>9. KeepsCover
  BY <1>1, <1>7 DEF KeepsCover
<1>10. /\ CasesGood(cases') /\ cases'.disputes = cases.disputes
      /\ BondsGood(bondVault') /\ Funded(bondVault')
  BY <1>1, <1>2, <1>5, <1>8
<1> QED
  BY <1>1, <1>9, <1>10, PanelStep

(* The bounds of a dispute's fields.                                          *)
LEMMA Before ==
    ASSUME Inv, NEW t \in Tasks
    PROVE  /\ cases.disputes[t].arbitrator \in Verifiers \union {Nobody}
           /\ cases.disputes[t].evidenceDeadline \in Nat
           /\ cases.disputes[t].rulingDeadline \in Nat
           /\ cases.disputes[t].slashed \in Nat
<1>1. DisputeGood(cases.disputes[t])
  BY DEF Inv, CasesGood
<1> QED
  BY <1>1 DEF DisputeGood

(* The deadlines of one dispute, from the invariant.                         *)
LEMMA OnTimeBefore ==
    ASSUME Inv, NEW t \in Tasks
    PROVE  OnTime(cases.disputes[t])
  BY DEF Inv

(* The arbitrator of one dispute, from the invariant.                        *)
LEMMA ImpartialBefore ==
    ASSUME Inv, NEW t \in Tasks
    PROVE  cases.disputes[t].arbitrator \notin {PosterOf[t], WorkerOf[t]} \ {Nobody}
  BY DEF Inv, NobodyJudgesOwnCase

(* The registry opens case t, or somebody assigns it, between p and w: the        *)
(* parties of this module's own runs among them, if those name any.  Module     *)
(* Protocol names none and takes the parties from the registry's task.          *)
Between(t, p, w) == {PosterOf[t], WorkerOf[t]} \subseteq {p, w, Nobody}

Opens(t) == \E p, w : Between(t, p, w) /\ RegistryOpens(t, p, w)
Assigns(t) == \E p, w : Between(t, p, w) /\ SomebodyAssigns(t, p, w)

(* A step of the two contracts, whoever the parties are.                      *)
Step == Next \/ \E t \in Tasks : Opens(t) \/ Assigns(t)

(* Dispute t is taken by whoever is next, if anybody is.                       *)
Takes(t, p, w) ==
    /\ Unserved(t) /\ OthersSame(t) /\ Open(cases'.disputes[t])
    /\ cases'.authorized = cases.authorized
    /\ cases'.disputes[t].arbitrator =
          NextArbitrator(cases, bondVault, p, w)
    /\ bondVault' = Assigned(bondVault, cases'.disputes[t].arbitrator)

(* Whoever takes a case is no party to it and is covered for it.             *)
LEMMA TakeStep ==
    ASSUME Assumed, Inv, NEW t \in Tasks, NEW p, NEW w, Takes(t, p, w)
    PROVE  /\ BondsGood(bondVault') /\ Funded(bondVault') /\ BondsCoverCases'
           /\ cases'.disputes[t].arbitrator \notin {p, w} \ {Nobody}
<1> DEFINE a == cases'.disputes[t].arbitrator
<1>1. /\ Unserved(t) /\ OthersSame(t) /\ Open(cases'.disputes[t])
      /\ cases'.authorized = cases.authorized
  BY DEF Takes
<1>2. a = NextArbitrator(cases, bondVault, p, w)
  BY DEF Takes
<1>3. bondVault' = Assigned(bondVault, a)
  BY DEF Takes
<1>4. CasesGood(cases)
  BY DEF Inv
<1> HIDE DEF a
<1>5. a = Nobody \/ (/\ a \in Verifiers /\ a \notin {p, w}
                     /\ cases.authorized[a] /\ Bonds!IsEligible(bondVault, a))
  BY <1>2, <1>4, NextFacts
<1>6. CASE a = Nobody
  <2>1. bondVault' = bondVault
    BY <1>3, <1>6 DEF Assigned
  <2>2. Unserved(t)'
    <3>1. Nobody \notin Verifiers
      BY ConstantFacts
    <3> QED
      BY <1>6, <3>1 DEF Unserved, a
  <2>3. BondsCoverCases'
    BY <1>1, <2>1, <2>2, CoverUnserved
  <2>4. BondsGood(bondVault') /\ Funded(bondVault')
    BY <2>1 DEF Inv
  <2> QED
    BY <1>6, <2>3, <2>4 DEF a
<1>7. CASE a # Nobody
  <2>1. /\ a \in Verifiers /\ cases.authorized[a] /\ Bonds!IsEligible(bondVault, a)
        /\ a \notin {p, w}
    BY <1>5, <1>7
  <2>2. bondVault' = Bonds!Assign(bondVault, a)
    BY <1>3, <1>7 DEF Assigned
  <2>3. cases'.disputes[t].arbitrator = a
    BY DEF a
  <2>4. BondsGood(bondVault') /\ Funded(bondVault') /\ BondsCoverCases'
    BY <1>1, <2>1, <2>2, <2>3, CoverAssign
  <2> QED
    BY <2>1, <2>4 DEF a
<1> QED
  BY <1>6, <1>7

(* What is known of a dispute just taken: nothing else has changed, and who     *)
(* judges it is no party.                                                     *)
Taken(t, p, w) ==
    /\ now' = now /\ OthersSame(t) /\ CasesGood(cases')
    /\ BondsGood(bondVault') /\ Funded(bondVault') /\ BondsCoverCases'
    /\ cases'.disputes[t].arbitrator \notin {p, w} \ {Nobody}
    /\ cases'.disputes[t].status = "EVIDENCE"
    /\ OnTime(cases.disputes[t])'

(* Opening a case is such a taking, whoever the parties are.                 *)
LEMMA OpenTakes ==
    ASSUME Assumed, Inv, NEW t \in Tasks, NEW p, NEW w, RegistryOpens(t, p, w)
    PROVE  Taken(t, p, w)
<1> DEFINE a == NextArbitrator(cases, bondVault, p, w)
<1>0. CasesGood(cases) /\ BondsGood(bondVault) /\ Funded(bondVault) /\ now \in Nat
  BY DEF Inv
<1>1. /\ cases' = OpenDispute(cases, bondVault, t, p, w, now)
      /\ bondVault' = Assigned(bondVault, cases'.disputes[t].arbitrator)
      /\ now' = now /\ cases.disputes[t].status = "NONE"
  BY DEF RegistryOpens, CanOpenDispute
<1>2. Turns(cases, cases', t, a, now + EvidenceWindow, 0, "EVIDENCE", 0)
  BY <1>1, <1>0, OpenTurns
<1> HIDE DEF a
<1>3. /\ CasesGood(cases') /\ cases'.authorized = cases.authorized
      /\ cases'.disputes[t].arbitrator = a /\ cases'.disputes[t].status = "EVIDENCE"
      /\ cases'.disputes[t].rulingDeadline = 0 /\ cases'.disputes[t].slashed = 0
      /\ OthersSame(t)
  BY <1>2 DEF Turns, OthersSame
<1>4. Unserved(t)
  BY <1>1 DEF Open, Unserved
<1>5. Open(cases'.disputes[t])
  BY <1>3 DEF Open
<1>6. cases'.disputes[t].arbitrator =
         NextArbitrator(cases, bondVault, p, w)
  BY <1>3 DEF a
<1>7. /\ BondsGood(bondVault') /\ Funded(bondVault') /\ BondsCoverCases'
      /\ cases'.disputes[t].arbitrator \notin {p, w} \ {Nobody}
  <2>1. bondVault' = Assigned(bondVault, cases'.disputes[t].arbitrator)
    BY <1>1
  <2>2. OthersSame(t) /\ cases'.authorized = cases.authorized
    BY <1>3
  <2>3. Takes(t, p, w)
    BY <2>1, <2>2, <1>4, <1>5, <1>6 DEF Takes
  <2> QED
    BY <2>3, TakeStep
<1>8. OnTime(cases.disputes[t])'
  BY <1>3 DEF OnTime
<1> QED
  <2>1. now' = now
    BY <1>1
  <2>2. OthersSame(t) /\ CasesGood(cases') /\ cases'.disputes[t].status = "EVIDENCE"
    BY <1>3
  <2> QED
    BY <2>1, <2>2, <1>7, <1>8 DEF Taken

(* A late assignment falls in the evidence window, so the case is not RULING. *)
LEMMA InEvidence ==
    ASSUME Assumed, Inv, NEW t \in Tasks, NEW p, NEW w,
           CanAssignArbitrator(cases, bondVault, t, p, w, now)
    PROVE  cases.disputes[t].status = "EVIDENCE" /\ cases.disputes[t].arbitrator = Nobody
<1>1. /\ Open(cases.disputes[t]) /\ cases.disputes[t].arbitrator = Nobody
      /\ now + RulingWindow <= cases.disputes[t].evidenceDeadline + RulingWindow
  BY DEF CanAssignArbitrator
<1>2. RulingWindow \in Nat /\ now \in Nat /\ cases.disputes[t].evidenceDeadline \in Nat
  <2>1. RulingWindow \in Nat
    BY ConstantFacts
  <2>2. now \in Nat
    BY DEF Inv
  <2> QED
    BY <2>1, <2>2, Before
<1>3. now <= cases.disputes[t].evidenceDeadline
  BY <1>1, <1>2
<1>4. cases.disputes[t].status # "RULING"
  <2>1. OnTime(cases.disputes[t])
    BY OnTimeBefore
  <2> QED
    BY <1>2, <1>3, <2>1 DEF OnTime
<1> QED
  BY <1>1, <1>4 DEF Open

(* So is assigning it later.                                                 *)
LEMMA AssignTakes ==
    ASSUME Assumed, Inv, NEW t \in Tasks, NEW p, NEW w, SomebodyAssigns(t, p, w)
    PROVE  Taken(t, p, w) /\ cases.disputes[t].status = "EVIDENCE"
<1> DEFINE a == NextArbitrator(cases, bondVault, p, w)
<1>1. CasesGood(cases) /\ BondsGood(bondVault) /\ Funded(bondVault) /\ now \in Nat
  BY DEF Inv
<1>2. CanAssignArbitrator(cases, bondVault, t, p, w, now)
  BY DEF SomebodyAssigns
<1>3. cases.disputes[t].status = "EVIDENCE" /\ cases.disputes[t].arbitrator = Nobody
  BY <1>2, InEvidence
<1>4. /\ cases' = AssignArbitrator(cases, bondVault, t, p, w, now)
      /\ bondVault' = Assigned(bondVault, cases'.disputes[t].arbitrator)
      /\ now' = now
  BY DEF SomebodyAssigns
<1>5. Turns(cases, cases', t, a, cases.disputes[t].evidenceDeadline,
            cases.disputes[t].rulingDeadline, "EVIDENCE", cases.disputes[t].slashed)
  <2>1. Turns(cases, AssignArbitrator(cases, bondVault, t, p, w, now), t, a,
              cases.disputes[t].evidenceDeadline, cases.disputes[t].rulingDeadline,
              "EVIDENCE", cases.disputes[t].slashed)
    BY <1>1, <1>3, AssignTurns
  <2> QED
    BY <1>4, <2>1
<1> HIDE DEF a
<1>6. /\ CasesGood(cases') /\ cases'.authorized = cases.authorized
      /\ cases'.disputes[t].arbitrator = a /\ cases'.disputes[t].status = "EVIDENCE"
      /\ cases'.disputes[t].rulingDeadline = cases.disputes[t].rulingDeadline
      /\ cases'.disputes[t].slashed = cases.disputes[t].slashed
      /\ OthersSame(t)
  BY <1>5 DEF Turns, OthersSame
<1>7. Unserved(t)
  <2>1. Nobody \notin Verifiers
    BY ConstantFacts
  <2> QED
    BY <1>3, <2>1 DEF Unserved
<1>8. Open(cases'.disputes[t])
  BY <1>6 DEF Open
<1>9. cases'.disputes[t].arbitrator =
         NextArbitrator(cases, bondVault, p, w)
  BY <1>6 DEF a
<1>10. /\ BondsGood(bondVault') /\ Funded(bondVault') /\ BondsCoverCases'
      /\ cases'.disputes[t].arbitrator \notin {p, w} \ {Nobody}
  <2>1. bondVault' = Assigned(bondVault, cases'.disputes[t].arbitrator)
    BY <1>4
  <2>2. OthersSame(t) /\ cases'.authorized = cases.authorized
    BY <1>6
  <2>3. Takes(t, p, w)
    BY <2>1, <2>2, <1>7, <1>8, <1>9 DEF Takes
  <2> QED
    BY <2>3, TakeStep
<1>11. OnTime(cases.disputes[t])'
  <2>1. OnTime(cases.disputes[t])
    BY OnTimeBefore
  <2> QED
    BY <1>4, <1>3, <1>6, <2>1 DEF OnTime, Open
<1> QED
  <2>1. now' = now
    BY <1>4
  <2>2. OthersSame(t) /\ CasesGood(cases') /\ cases'.disputes[t].status = "EVIDENCE"
    BY <1>6
  <2> QED
    BY <2>1, <2>2, <1>3, <1>10, <1>11 DEF Taken

(* A case opened or assigned for its own parties keeps the invariant.        *)
LEMMA TakenStep ==
    ASSUME Assumed, Inv, NEW t \in Tasks, Opens(t) \/ Assigns(t)
    PROVE  Inv'
<1>1. PICK p, w : Between(t, p, w) /\ Taken(t, p, w)
  BY OpenTakes, AssignTakes DEF Opens, Assigns
<1>2. cases'.disputes[t].arbitrator \notin {PosterOf[t], WorkerOf[t]} \ {Nobody}
  BY <1>1 DEF Between, Taken
<1> QED
  BY <1>1, <1>2, DisputeStep DEF Taken

(* Beginning a ruling keeps the invariant.                                   *)
LEMMA BeginStep ==
    ASSUME Assumed, Inv, NEW t \in Tasks, SomebodyBegins(t)
    PROVE  Inv'
<1>0. CasesGood(cases) /\ BondsGood(bondVault) /\ Funded(bondVault) /\ now \in Nat
  BY DEF Inv
<1>1. /\ cases' = BeginRuling(cases, t) /\ bondVault' = bondVault /\ now' = now
      /\ cases.disputes[t].status = "EVIDENCE" /\ now > cases.disputes[t].evidenceDeadline
  BY DEF SomebodyBegins, CanBeginRuling
<1>2. Turns(cases, cases', t, cases.disputes[t].arbitrator,
            cases.disputes[t].evidenceDeadline,
            cases.disputes[t].evidenceDeadline + RulingWindow, "RULING",
            cases.disputes[t].slashed)
  BY <1>1, <1>0, BeginTurns
<1>3. /\ CasesGood(cases') /\ cases'.authorized = cases.authorized
      /\ cases'.disputes[t].arbitrator = cases.disputes[t].arbitrator
      /\ cases'.disputes[t].status = "RULING"
      /\ cases'.disputes[t].evidenceDeadline = cases.disputes[t].evidenceDeadline
      /\ cases'.disputes[t].rulingDeadline = cases.disputes[t].evidenceDeadline + RulingWindow
      /\ cases'.disputes[t].slashed = cases.disputes[t].slashed
      /\ OthersSame(t)
  BY <1>2 DEF Turns, OthersSame
<1>4. BondsCoverCases'
  <2> SUFFICES ASSUME NEW x \in Verifiers
               PROVE  /\ bondVault'.activeAssignments[x] = Cardinality(OpenCases(x)')
                      /\ bondVault'.reservedSlash[x] = Cardinality(OpenCases(x)') * MinimumBond
                      /\ bondVault'.bonds[x] >= bondVault'.reservedSlash[x]
                      /\ OpenCases(x)' # {} =>
                            cases'.authorized[x] /\ bondVault'.withdrawReadyAt[x] = 0
    BY DEF BondsCoverCases
  <2>1. OpenCases(x)' = OpenCases(x)
    BY <1>1, <1>3 DEF OpenCases, Open, OthersSame
  <2> QED
    BY <1>1, <1>3, <2>1, CoveredBefore
<1>5. OnTime(cases.disputes[t])'
  <2>1. OnTime(cases.disputes[t])
    BY OnTimeBefore
  <2> QED
    BY <1>1, <1>3, <2>1 DEF OnTime, Open
<1>6. cases'.disputes[t].arbitrator \notin {PosterOf[t], WorkerOf[t]} \ {Nobody}
  BY <1>3, ImpartialBefore
<1>7. BondsGood(bondVault') /\ Funded(bondVault')
  BY <1>0, <1>1
<1> QED
  BY <1>1, <1>3, <1>4, <1>5, <1>6, <1>7, DisputeStep

(* An arbitrator with an open case has its assignment and its reserve.         *)
LEMMA HasReserve ==
    ASSUME Assumed, Inv, NEW t \in Tasks, NEW a \in Verifiers,
           Open(cases.disputes[t]), cases.disputes[t].arbitrator = a
    PROVE  1 <= bondVault.activeAssignments[a] /\ MinimumBond <= bondVault.reservedSlash[a]
<1> DEFINE k == Cardinality(OpenCases(a))
<1>1. t \in OpenCases(a)
  BY DEF OpenCases
<1>2. k \in Nat \ {0}
  <2>1. IsFiniteSet(OpenCases(a)) /\ k \in Nat
    BY OpenCasesFinite
  <2>2. k # 0
    BY <1>1, <2>1, FS_EmptySet
  <2> QED
    BY <2>1, <2>2
<1>3. bondVault.activeAssignments[a] = k /\ bondVault.reservedSlash[a] = k * MinimumBond
  BY CoveredBefore
<1> HIDE DEF k
<1>4. k * MinimumBond >= MinimumBond
  <2>1. MinimumBond \in Nat
    BY ConstantFacts
  <2>2. k * MinimumBond = (k - 1) * MinimumBond + MinimumBond /\ (k - 1) * MinimumBond \in Nat
    BY <1>2, <2>1
  <2> QED
    BY <2>1, <2>2
<1>5. MinimumBond \in Nat /\ k * MinimumBond \in Nat
  BY <1>2, ConstantFacts
<1> QED
  BY <1>2, <1>3, <1>4, <1>5

(* The ruling deadline of a case when it is ruled on.                          *)
RulingCloses(d) ==
    IF d.status = "EVIDENCE" THEN d.evidenceDeadline + RulingWindow ELSE d.rulingDeadline

(* A ruling in the terms of Turns, whether it had begun or begins with it.   *)
LEMMA RuledTurns ==
    ASSUME Assumed, NEW c, CasesGood(c), NEW t \in Tasks, NEW outcome
    PROVE  Turns(c, Rule(c, t, outcome), t, c.disputes[t].arbitrator,
                 c.disputes[t].evidenceDeadline,
                 RulingCloses(c.disputes[t]),
                 "SETTLED", c.disputes[t].slashed)
<1>1. CASE c.disputes[t].status # "EVIDENCE"
  BY <1>1, RuleTurns DEF RulingCloses
<1>2. CASE c.disputes[t].status = "EVIDENCE"
  <2> DEFINE m == BeginRuling(c, t)
             r == Rule(c, t, outcome)
  <2>1. Turns(c, m, t, c.disputes[t].arbitrator, c.disputes[t].evidenceDeadline,
              c.disputes[t].evidenceDeadline + RulingWindow, "RULING",
              c.disputes[t].slashed)
    BY BeginTurns
  <2>2. CasesGood(m) /\ m.disputes[t].status = "RULING"
    BY <2>1 DEF Turns
  <2>3. r = Rule(m, t, outcome)
    BY <1>2, <2>2 DEF Rule, Ruling
  <2> HIDE DEF m, r
  <2>4. Turns(m, r, t, m.disputes[t].arbitrator, m.disputes[t].evidenceDeadline,
              m.disputes[t].rulingDeadline, "SETTLED", m.disputes[t].slashed)
    BY <2>2, <2>3, RuleTurns
  <2>5. Turns(c, r, t, c.disputes[t].arbitrator, c.disputes[t].evidenceDeadline,
              c.disputes[t].evidenceDeadline + RulingWindow, "SETTLED",
              c.disputes[t].slashed)
    BY <2>1, <2>4 DEF Turns
  <2> QED
    BY <1>2, <2>5 DEF r, RulingCloses
<1> QED
  BY <1>1, <1>2

(* A case ruled on is settled with the outcome given.                          *)
LEMMA RuledOutcome ==
    ASSUME Assumed, NEW c, CasesGood(c), NEW t \in Tasks, NEW outcome
    PROVE  Rule(c, t, outcome).disputes[t].outcome = outcome
<1> DEFINE m == Ruling(c, t)
           one == [m.disputes EXCEPT ![t] = [@ EXCEPT !.status = "SETTLED"]]
           two == [one EXCEPT ![t] = [@ EXCEPT !.outcome = outcome]]
<1>1. CasesGood(m)
  <2>1. CasesGood(BeginRuling(c, t))
    BY BeginTurns DEF Turns
  <2> QED
    BY <2>1 DEF Ruling
<1> HIDE DEF m
<1>2. /\ "disputes" \in DOMAIN m /\ DOMAIN m.disputes = Tasks
      /\ "outcome" \in DOMAIN m.disputes[t]
  BY <1>1 DEF CasesGood, DisputeGood
<1>3. Rule(c, t, outcome).disputes = two
  BY <1>2 DEF Rule, m
<1>4. DOMAIN one = Tasks /\ "outcome" \in DOMAIN one[t]
  BY <1>2
<1> HIDE DEF one
<1>5. two[t].outcome = outcome
  BY <1>4
<1> QED
  BY <1>3, <1>5

(* The outcome a ruling names is the one the case records.                    *)
Records(t, outcome) == cases'.disputes[t].outcome = outcome

LEMMA RulingRecords ==
    ASSUME Assumed, Inv, NEW t \in Tasks, NEW outcome, NEW bps,
           ArbitratorRules(t, outcome, bps)
    PROVE  Records(t, outcome)
<1>1. CasesGood(cases)
  BY DEF Inv
<1>2. cases' = Rule(cases, t, outcome)
  BY DEF ArbitratorRules
<1> QED
  BY <1>1, <1>2, RuledOutcome DEF Records

(* What beginning the ruling of a case leaves of it.                          *)
Begun(t) ==
    /\ cases.disputes[t].status = "EVIDENCE" /\ cases'.disputes[t].status = "RULING"
    /\ cases'.disputes[t].arbitrator = cases.disputes[t].arbitrator
    /\ OthersSame(t)

(* The arbitrator stays, and the other cases are untouched.                   *)
LEMMA BeginFacts ==
    ASSUME Assumed, Inv, NEW t \in Tasks, SomebodyBegins(t)
    PROVE  Begun(t)
<1>1. CasesGood(cases)
  BY DEF Inv
<1>2. /\ cases.disputes[t].status = "EVIDENCE"
      /\ cases' = BeginRuling(cases, t)
  BY DEF SomebodyBegins, CanBeginRuling
<1>3. Turns(cases, cases', t, cases.disputes[t].arbitrator,
            cases.disputes[t].evidenceDeadline,
            cases.disputes[t].evidenceDeadline + RulingWindow, "RULING",
            cases.disputes[t].slashed)
  BY <1>1, <1>2, BeginTurns
<1> QED
  BY <1>2, <1>3 DEF Turns, OthersSame, Begun

(* The two ways a case ends.                                                  *)
SomebodyRules(t) == \E outcome, bps : ArbitratorRules(t, outcome, bps)

CaseLapses(t) == \E refused : SomebodyTimesOut(t, refused)

(* What a ruling does.                                                        *)
Ruled(t) ==
    /\ Closes(t, cases.disputes[t].arbitrator, 0)
    /\ cases.disputes[t].arbitrator \in Verifiers
    /\ CasesGood(cases') /\ BondsGood(bondVault') /\ Funded(bondVault')
    /\ cases'.disputes[t].arbitrator = cases.disputes[t].arbitrator
    /\ cases'.disputes[t].evidenceDeadline = cases.disputes[t].evidenceDeadline
    /\ cases'.disputes[t].rulingDeadline = RulingCloses(cases.disputes[t])
    /\ cases'.disputes[t].status = "SETTLED"
    /\ cases'.disputes[t].slashed = cases.disputes[t].slashed
    /\ bondVault'.bonds = bondVault.bonds

(* A ruling ends an open case, with its arbitrator's bond released.          *)
LEMMA RuleFacts ==
    ASSUME Assumed, Inv, NEW t \in Tasks, SomebodyRules(t)
    PROVE  Ruled(t)
<1>0. PICK outcome, bps : ArbitratorRules(t, outcome, bps)
  BY DEF SomebodyRules
<1> DEFINE a == cases.disputes[t].arbitrator
           r == Bonds!Release(bondVault, a)
<1>1. CanRule(cases, bondVault, t, outcome, bps, now)
  BY <1>0 DEF ArbitratorRules
<1>2. cases' = Rule(cases, t, outcome)
  BY <1>0 DEF ArbitratorRules
<1>3. bondVault' = r
  BY <1>0 DEF ArbitratorRules
<1>4. CasesGood(cases) /\ BondsGood(bondVault) /\ Funded(bondVault)
  BY DEF Inv
<1>5. Open(cases.disputes[t]) /\ a \in Verifiers
  <2>1. a # Nobody /\ Ruling(cases, t).disputes[t].status = "RULING"
    BY <1>1 DEF CanRule
  <2>2. cases.disputes[t].status = "EVIDENCE" \/ cases.disputes[t].status = "RULING"
    BY <2>1 DEF Ruling
  <2> QED
    BY <2>1, <2>2, Before DEF Open
<1>6. Turns(cases, cases', t, a, cases.disputes[t].evidenceDeadline,
            RulingCloses(cases.disputes[t]),
            "SETTLED", cases.disputes[t].slashed)
  <2>1. Turns(cases, Rule(cases, t, outcome), t, cases.disputes[t].arbitrator,
              cases.disputes[t].evidenceDeadline,
              RulingCloses(cases.disputes[t]),
              "SETTLED", cases.disputes[t].slashed)
    BY <1>4, RuledTurns
  <2> QED
    BY <1>2, <2>1
<1>7. 1 <= bondVault.activeAssignments[a] /\ MinimumBond <= bondVault.reservedSlash[a]
  BY <1>5, HasReserve
<1>8. MinimumBond \in Nat
  BY ConstantFacts
<1>9. r.bonds = bondVault.bonds
  BY <1>4 DEF Bonds!Release, BondsGood
<1> HIDE DEF a
<1>10. /\ Moves(bondVault, r, a, -1, -MinimumBond, 0)
       /\ r.withdrawReadyAt = bondVault.withdrawReadyAt /\ r.balance = bondVault.balance
       /\ r.totalBonded = bondVault.totalBonded
       /\ r.totalPendingPayouts = bondVault.totalPendingPayouts
  BY <1>4, <1>5, <1>7, <1>8, ReleaseFacts
<1> HIDE DEF r
<1>11. BondsGood(r) /\ Funded(r)
  BY <1>4, <1>10 DEF Moves, Funded
<1>12. /\ CasesGood(cases') /\ cases'.authorized = cases.authorized
       /\ cases'.disputes[t].arbitrator = a
       /\ cases'.disputes[t].evidenceDeadline = cases.disputes[t].evidenceDeadline
       /\ cases'.disputes[t].rulingDeadline =
             RulingCloses(cases.disputes[t])
       /\ cases'.disputes[t].status = "SETTLED"
       /\ cases'.disputes[t].slashed = cases.disputes[t].slashed
       /\ OthersSame(t)
  BY <1>6 DEF Turns, OthersSame
<1>13. Closes(t, a, 0)
  <2>1. ~Open(cases'.disputes[t])
    BY <1>12 DEF Open
  <2>2. cases.disputes[t].arbitrator = a
    BY DEF a
  <2>3. 0 <= MinimumBond /\ 0 - 0 = 0
    BY <1>8
  <2>4. /\ Moves(bondVault, bondVault', a, -1, -MinimumBond, 0)
        /\ bondVault'.withdrawReadyAt = bondVault.withdrawReadyAt
    BY <1>3, <1>10
  <2>5. OthersSame(t) /\ cases'.authorized = cases.authorized
    BY <1>12
  <2> QED
    BY <1>5, <2>1, <2>2, <2>3, <2>4, <2>5 DEF Closes
<1>14. BondsGood(bondVault') /\ Funded(bondVault') /\ bondVault'.bonds = bondVault.bonds
  BY <1>3, <1>9, <1>11
<1> QED
  BY <1>5, <1>12, <1>13, <1>14 DEF a, Ruled

(* A ruling keeps the invariant.                                             *)
LEMMA RuleStep ==
    ASSUME Assumed, Inv, NEW t \in Tasks, SomebodyRules(t)
    PROVE  Inv'
<1>1. /\ Closes(t, cases.disputes[t].arbitrator, 0)
      /\ cases.disputes[t].arbitrator \in Verifiers
      /\ CasesGood(cases') /\ BondsGood(bondVault') /\ Funded(bondVault')
      /\ cases'.disputes[t].arbitrator = cases.disputes[t].arbitrator
      /\ cases'.disputes[t].status = "SETTLED"
  <2>1. Ruled(t)
    BY RuleFacts
  <2> QED
    BY <2>1 DEF Ruled
<1>2. BondsCoverCases'
  BY <1>1, CoverClose
<1>3. OnTime(cases.disputes[t])'
  BY <1>1 DEF OnTime, Open
<1>4. cases'.disputes[t].arbitrator \notin {PosterOf[t], WorkerOf[t]} \ {Nobody}
  BY <1>1, ImpartialBefore
<1>5. OthersSame(t)
  BY <1>1 DEF Closes
<1>6. now' = now
  BY DEF SomebodyRules, ArbitratorRules
<1> QED
  BY <1>1, <1>2, <1>3, <1>4, <1>5, <1>6, DisputeStep

(* The slash of a case that was not slashed: the capped part of one reserve,   *)
(* or the bond if that is less.                                               *)
SlashCap == (MinimumBond * SlashCapBps) \div 10000

(* A basis point of a natural number, rounded down, is natural.              *)
LEMMA TenThousandth ==
    ASSUME NEW k \in Nat
    PROVE  k \div 10000 \in Nat
  BY Z3

(* The cap on a slash is natural.                                            *)
LEMMA SlashCapType ==
    ASSUME Assumed
    PROVE  SlashCap \in Nat
<1> DEFINE k == MinimumBond * SlashCapBps
<1>1. k \in Nat
  <2>1. MinimumBond \in Nat /\ SlashCapBps \in Nat
    BY DEF Assumed
  <2> QED
    BY <2>1
<1> HIDE DEF k
<1>2. k \div 10000 \in Nat
  BY <1>1, TenThousandth
<1> QED
  BY <1>2 DEF SlashCap, k

(* A slash is within the cap, and an open case has not been slashed.         *)
LEMMA SlashBounds ==
    ASSUME Assumed, Inv, NEW t \in Tasks, Open(cases.disputes[t])
    PROVE  /\ SlashAmount(cases, bondVault, t) \in Nat
           /\ SlashAmount(cases, bondVault, t) <= SlashCap
           /\ cases.disputes[t].slashed = 0
<1>1. cases.disputes[t].slashed = 0
  <2>1. OnTime(cases.disputes[t])
    BY OnTimeBefore
  <2> QED
    BY <2>1 DEF OnTime
<1>2. SlashCap \in Nat
  BY SlashCapType
<1>3. Monus(SlashCap, cases.disputes[t].slashed) = SlashCap
  BY <1>1, <1>2 DEF Monus
<1>4. CASE cases.disputes[t].arbitrator = Nobody
  BY <1>1, <1>2, <1>4 DEF SlashAmount
<1>5. CASE cases.disputes[t].arbitrator # Nobody
  <2>1. bondVault.bonds[cases.disputes[t].arbitrator] \in Nat
    <3>1. cases.disputes[t].arbitrator \in Verifiers
      BY <1>5, Before
    <3> QED
      BY <3>1, CoveredBefore
  <2>2. SlashAmount(cases, bondVault, t) =
           IF SlashCap < bondVault.bonds[cases.disputes[t].arbitrator] THEN SlashCap
           ELSE bondVault.bonds[cases.disputes[t].arbitrator]
    BY <1>3, <1>5 DEF SlashAmount, SlashCap
  <2> QED
    BY <1>1, <1>2, <2>1, <2>2
<1> QED
  BY <1>4, <1>5

(* What a timeout does to the case ...                                        *)
Lapsed(t) ==
    /\ Open(cases.disputes[t]) /\ now > Cutoff(cases.disputes[t]) /\ now' = now
    /\ CasesGood(cases') /\ cases'.authorized = cases.authorized /\ OthersSame(t)
    /\ cases'.disputes[t].arbitrator = cases.disputes[t].arbitrator
    /\ cases'.disputes[t].evidenceDeadline = cases.disputes[t].evidenceDeadline
    /\ cases'.disputes[t].rulingDeadline = cases.disputes[t].rulingDeadline
    /\ cases'.disputes[t].status = "SETTLED"
    /\ cases'.disputes[t].outcome = "MUTUAL"
    /\ cases'.disputes[t].slashed = SlashAmount(cases, bondVault, t)

(* A timeout ends an open case whose cutoff has passed.                      *)
LEMMA TimeoutFacts ==
    ASSUME Assumed, Inv, NEW t \in Tasks, CaseLapses(t)
    PROVE  Lapsed(t)
<1>0. PICK refused : SomebodyTimesOut(t, refused)
  BY DEF CaseLapses
<1> DEFINE n == SlashAmount(cases, bondVault, t)
<1>1. CanTimeout(cases, bondVault, t, now)
  BY <1>0 DEF SomebodyTimesOut
<1>2. cases' = Timeout(cases, bondVault, t)
  BY <1>0 DEF SomebodyTimesOut
<1>3. now' = now
  BY <1>0 DEF SomebodyTimesOut
<1>4. Open(cases.disputes[t]) /\ now > Cutoff(cases.disputes[t])
  BY <1>1 DEF CanTimeout
<1>5. n \in Nat /\ cases.disputes[t].slashed = 0
  BY <1>4, SlashBounds
<1>6. CasesGood(cases)
  BY DEF Inv
<1>7. /\ Turns(cases, Timeout(cases, bondVault, t), t, cases.disputes[t].arbitrator,
               cases.disputes[t].evidenceDeadline, cases.disputes[t].rulingDeadline,
               "SETTLED", cases.disputes[t].slashed + n)
      /\ Timeout(cases, bondVault, t).disputes[t].outcome = "MUTUAL"
  BY <1>5, <1>6, TimeoutTurns
<1> HIDE DEF n
<1>8. cases.disputes[t].slashed + n = n
  BY <1>5
<1>9. /\ Turns(cases, cases', t, cases.disputes[t].arbitrator,
               cases.disputes[t].evidenceDeadline, cases.disputes[t].rulingDeadline,
               "SETTLED", n)
      /\ cases'.disputes[t].outcome = "MUTUAL"
  BY <1>2, <1>7, <1>8
<1>10. /\ CasesGood(cases') /\ cases'.authorized = cases.authorized /\ OthersSame(t)
       /\ cases'.disputes[t].arbitrator = cases.disputes[t].arbitrator
       /\ cases'.disputes[t].evidenceDeadline = cases.disputes[t].evidenceDeadline
       /\ cases'.disputes[t].rulingDeadline = cases.disputes[t].rulingDeadline
       /\ cases'.disputes[t].status = "SETTLED" /\ cases'.disputes[t].slashed = n
  BY <1>9 DEF Turns, OthersSame
<1> QED
  BY <1>3, <1>4, <1>9, <1>10 DEF n, Lapsed

(* ... and to the bonds.                                                      *)
LapsedBonds(t) ==
    /\ BondsGood(bondVault') /\ Funded(bondVault')
    /\ \/ cases.disputes[t].arbitrator = Nobody /\ bondVault' = bondVault
       \/ /\ cases.disputes[t].arbitrator \in Verifiers
          /\ Closes(t, cases.disputes[t].arbitrator, SlashAmount(cases, bondVault, t))

(* What it does to the bonds: at most the capped slash of the arbitrator     *)
(* that let it lapse.                                                        *)
LEMMA TimeoutBonds ==
    ASSUME Assumed, Inv, NEW t \in Tasks, CaseLapses(t)
    PROVE  LapsedBonds(t)
<1>0. PICK refused : SomebodyTimesOut(t, refused)
  BY DEF CaseLapses
<1> DEFINE a == cases.disputes[t].arbitrator
           n == SlashAmount(cases, bondVault, t)
           r == Bonds!SlashAndRelease(bondVault, a, n, refused)
<1>1. CanTimeout(cases, bondVault, t, now)
  BY <1>0 DEF SomebodyTimesOut
<1>2. bondVault' = TimedOut(cases, bondVault, t, refused)
  BY <1>0 DEF SomebodyTimesOut
<1>3. CASE a = Nobody
  <2>1. bondVault' = bondVault
    BY <1>2, <1>3 DEF TimedOut
  <2>2. BondsGood(bondVault) /\ Funded(bondVault)
    BY DEF Inv
  <2> QED
    BY <1>3, <2>1, <2>2 DEF LapsedBonds
<1>4. CASE a # Nobody
  <2>1. bondVault' = r
    BY <1>2, <1>4 DEF TimedOut
  <2>2. Bonds!CanSlashAndRelease(bondVault, a, n)
    BY <1>1, <1>4 DEF CanTimeout
  <2>3. a \in Verifiers
    BY <1>4, Before
  <2>4. Open(cases.disputes[t])
    BY <1>1 DEF CanTimeout
  <2>5. n \in Nat
    BY <2>4, SlashBounds
  <2>6. BondsGood(bondVault) /\ Funded(bondVault) /\ MinimumBond \in Nat
    BY ConstantFacts DEF Inv
  <2>7. /\ ~Open(cases'.disputes[t]) /\ OthersSame(t)
        /\ cases'.authorized = cases.authorized
    <3>1. Lapsed(t)
      BY TimeoutFacts
    <3> QED
      BY <3>1 DEF Lapsed, Open
  <2>8. cases.disputes[t].arbitrator = a
    OBVIOUS
  <2> HIDE DEF a, n
  <2>9. /\ Moves(bondVault, r, a, -1, -MinimumBond, -n)
        /\ r.withdrawReadyAt = bondVault.withdrawReadyAt /\ Funded(r)
        /\ n <= MinimumBond
    BY <2>2, <2>3, <2>5, <2>6, SlashFacts
  <2> HIDE DEF r
  <2>10. Moves(bondVault, r, a, -1, -MinimumBond, 0 - n) /\ BondsGood(r)
    <3>1. -n = 0 - n
      BY <2>5
    <3> QED
      BY <2>9, <3>1 DEF Moves
  <2>11. Moves(bondVault, bondVault', a, -1, -MinimumBond, 0 - n)
    BY <2>1, <2>10
  <2>12. bondVault'.withdrawReadyAt = bondVault.withdrawReadyAt
    BY <2>1, <2>9
  <2>13. Closes(t, a, n)
    BY <2>4, <2>7, <2>8, <2>9, <2>11, <2>12 DEF Closes
  <2>14. BondsGood(bondVault') /\ Funded(bondVault')
    BY <2>1, <2>9, <2>10
  <2> QED
    BY <2>3, <2>13, <2>14 DEF a, n, LapsedBonds
<1> QED
  BY <1>3, <1>4

(* A timeout keeps the invariant.                                            *)
LEMMA TimeoutStep ==
    ASSUME Assumed, Inv, NEW t \in Tasks, CaseLapses(t)
    PROVE  Inv'
<1> DEFINE a == cases.disputes[t].arbitrator
           n == SlashAmount(cases, bondVault, t)
<1>1. /\ Open(cases.disputes[t]) /\ now' = now
      /\ CasesGood(cases') /\ cases'.authorized = cases.authorized /\ OthersSame(t)
      /\ cases'.disputes[t].arbitrator = a /\ cases'.disputes[t].status = "SETTLED"
  <2>1. Lapsed(t)
    BY TimeoutFacts
  <2> QED
    BY <2>1 DEF Lapsed
<1>2. /\ BondsGood(bondVault') /\ Funded(bondVault')
      /\ (a = Nobody /\ bondVault' = bondVault) \/ (a \in Verifiers /\ Closes(t, a, n))
  <2>1. LapsedBonds(t)
    BY TimeoutBonds
  <2> QED
    BY <2>1 DEF LapsedBonds
<1>3. BondsCoverCases'
  <2>1. CASE a = Nobody /\ bondVault' = bondVault
    <3>1. Nobody \notin Verifiers
      BY ConstantFacts
    <3>2. Unserved(t) /\ Unserved(t)'
      BY <1>1, <2>1, <3>1 DEF Unserved
    <3> QED
      BY <1>1, <2>1, <3>2, CoverUnserved
  <2>2. CASE a \in Verifiers /\ Closes(t, a, n)
    <3>1. n \in Nat
      BY <1>1, SlashBounds
    <3> QED
      BY <2>2, <3>1, CoverClose
  <2> QED
    BY <1>2, <2>1, <2>2
<1>4. OnTime(cases.disputes[t])'
  <2>1. cases'.disputes[t].status = "SETTLED"
    BY <1>1
  <2> QED
    BY <2>1 DEF OnTime, Open
<1>5. cases'.disputes[t].arbitrator \notin {PosterOf[t], WorkerOf[t]} \ {Nobody}
  <2>1. cases'.disputes[t].arbitrator = cases.disputes[t].arbitrator
    BY <1>1
  <2> QED
    BY <2>1, ImpartialBefore
<1>6. now' = now /\ CasesGood(cases') /\ OthersSame(t)
  BY <1>1
<1> HIDE DEF a, n
<1>7. BondsGood(bondVault') /\ Funded(bondVault')
  BY <1>2
<1> QED
  BY <1>3, <1>4, <1>5, <1>6, <1>7, DisputeStep

(* So does the passing of time.                                              *)
LEMMA TickStep ==
    ASSUME Inv, Tick
    PROVE  Inv'
<1>1. cases' = cases /\ bondVault' = bondVault /\ now' = now + 1 /\ now \in Nat
  BY DEF Tick, Inv
<1>2. \A t \in Tasks : OnTime(cases.disputes[t])'
  <2> SUFFICES ASSUME NEW t \in Tasks
               PROVE  OnTime(cases.disputes[t])'
    OBVIOUS
  <2>1. OnTime(cases.disputes[t]) /\ cases.disputes[t].evidenceDeadline \in Nat
    BY OnTimeBefore, Before
  <2> QED
    BY <1>1, <2>1 DEF OnTime, Open
<1>3. BondsCoverCases'
  <2>1. \A x : OpenCases(x)' = OpenCases(x)
    BY <1>1 DEF OpenCases, Open
  <2>2. BondsCoverCases
    BY DEF Inv
  <2> QED
    BY <1>1, <2>1, <2>2 DEF BondsCoverCases
<1>4. NobodyJudgesOwnCase'
  BY <1>1 DEF Inv, NobodyJudgesOwnCase
<1>5. now' \in Nat /\ CasesGood(cases)' /\ BondsGood(bondVault)' /\ Funded(bondVault)'
  BY <1>1 DEF Inv
<1> QED
  BY <1>2, <1>3, <1>4, <1>5 DEF Inv

(* What a step is.                                                            *)
LEMMA StepCases ==
    ASSUME Assumed, Step
    PROVE  \/ \E x \in Verifiers, n \in Nat : PostBond(x, n)
           \/ \E x \in Verifiers, n \in Nat : VerifierWithdraws(x, n)
           \/ \E x \in Verifiers : VerifierSchedules(x)
           \/ \E x \in Verifiers : OwnerAdds(x)
           \/ \E x \in Verifiers : OwnerRemoves(x)
           \/ \E t \in Tasks : Opens(t)
           \/ \E t \in Tasks : Assigns(t)
           \/ \E t \in Tasks : SomebodyBegins(t)
           \/ \E t \in Tasks : CaseLapses(t)
           \/ \E t \in Tasks : SomebodyRules(t)
           \/ TreasuryPulls
           \/ Tick
<1>1. BondAmounts \subseteq Nat
  BY ConstantFacts
<1>2. ASSUME NEW t \in Tasks, NEW refused \in BOOLEAN, SomebodyTimesOut(t, refused)
      PROVE  CaseLapses(t)
  BY <1>2 DEF CaseLapses
<1>3. ASSUME NEW t \in Tasks, NEW outcome \in Outcomes, NEW bps \in WorkerBps,
             ArbitratorRules(t, outcome, bps)
      PROVE  SomebodyRules(t)
  BY <1>3 DEF SomebodyRules
<1>4. ASSUME NEW t \in Tasks,
             \/ RegistryOpens(t, PosterOf[t], WorkerOf[t])
             \/ SomebodyAssigns(t, PosterOf[t], WorkerOf[t])
      PROVE  Opens(t) \/ Assigns(t)
  BY <1>4 DEF Opens, Assigns, Between
<1> QED
  BY <1>1, <1>2, <1>3, <1>4 DEF Step, Next

(* The transactions of Arbitration are steps with the parties its constants  *)
(* give.                                                                     *)
LEMMA NextSteps == [Next]_vars => [Step]_vars
  BY DEF Step

(* Doing nothing keeps the invariant.                                        *)
LEMMA InvStutters ==
    ASSUME Inv, UNCHANGED vars
    PROVE  Inv'
<1>1. cases' = cases /\ bondVault' = bondVault /\ now' = now
  BY DEF vars
<1>2. BondsCoverCases'
  <2>1. \A x : OpenCases(x)' = OpenCases(x)
    BY <1>1 DEF OpenCases, Open
  <2>2. BondsCoverCases
    BY DEF Inv
  <2> QED
    BY <1>1, <2>1, <2>2 DEF BondsCoverCases
<1>3. (\A t \in Tasks : OnTime(cases.disputes[t]))' /\ NobodyJudgesOwnCase'
  BY <1>1 DEF Inv, OnTime, Open, NobodyJudgesOwnCase
<1>4. now' \in Nat /\ CasesGood(cases)' /\ BondsGood(bondVault)' /\ Funded(bondVault)'
  BY <1>1 DEF Inv
<1> QED
  BY <1>2, <1>3, <1>4 DEF Inv

(* Every step keeps the invariant.                                           *)
LEMMA InvStep ==
    ASSUME Assumed, Inv, [Step]_vars
    PROVE  Inv'
<1>1. CASE UNCHANGED vars
  BY <1>1, InvStutters
<1>2. CASE Step
  <2>1. ASSUME NEW x \in Verifiers, NEW n \in Nat, PostBond(x, n)
        PROVE  Inv'
    BY <2>1, PostBondStep
  <2>2. ASSUME NEW x \in Verifiers, NEW n \in Nat, VerifierWithdraws(x, n)
        PROVE  Inv'
    BY <2>2, WithdrawStep
  <2>3. ASSUME NEW x \in Verifiers, VerifierSchedules(x)
        PROVE  Inv'
    BY <2>3, ScheduleStep
  <2>4. ASSUME NEW x \in Verifiers, OwnerAdds(x)
        PROVE  Inv'
    BY <2>4, AddStep
  <2>5. ASSUME NEW x \in Verifiers, OwnerRemoves(x)
        PROVE  Inv'
    BY <2>5, RemoveStep
  <2>6. ASSUME NEW t \in Tasks, Opens(t)
        PROVE  Inv'
    BY <2>6, TakenStep
  <2>7. ASSUME NEW t \in Tasks, Assigns(t)
        PROVE  Inv'
    BY <2>7, TakenStep
  <2>8. ASSUME NEW t \in Tasks, SomebodyBegins(t)
        PROVE  Inv'
    BY <2>8, BeginStep
  <2>9. ASSUME NEW t \in Tasks, CaseLapses(t)
        PROVE  Inv'
    BY <2>9, TimeoutStep
  <2>10. ASSUME NEW t \in Tasks, SomebodyRules(t)
         PROVE  Inv'
    BY <2>10, RuleStep
  <2>11. CASE TreasuryPulls
    BY <2>11, PullStep
  <2>12. CASE Tick
    BY <2>12, TickStep
  <2> QED
    BY <1>2, <2>1, <2>2, <2>3, <2>4, <2>5, <2>6, <2>7, <2>8, <2>9, <2>10, <2>11, <2>12,
       StepCases
<1> QED
  BY <1>1, <1>2

(* The inductive invariant: the two contracts' fields keep their types, every   *)
(* case has its deadlines in order, and what follows is always true.          *)
THEOREM ArbitrationSound == Spec => []Inv
<1>1. Init => Inv
  BY AssumptionHolds, InitGood
<1>2. Inv /\ [Next]_vars => Inv'
  BY NextSteps, AssumptionHolds, InvStep
<1> QED
  BY <1>1, <1>2, PTL DEF Spec

(* A verifier has as many assignments and as much bond reserved as open cases, *)
(* and bond enough for them (VerifierBondVaultV2.assign, release).             *)
THEOREM ArbitrationBondsCover == Spec => []BondsCoverCases
<1>1. Inv => BondsCoverCases
  BY DEF Inv
<1> QED
  BY <1>1, ArbitrationSound, PTL

(* No arbitrator is a party to its case (ArbitrationModuleV2._nextArbitrator). *)
THEOREM ArbitrationImpartial == Spec => []NobodyJudgesOwnCase
<1>1. Inv => NobodyJudgesOwnCase
  BY DEF Inv
<1> QED
  BY <1>1, ArbitrationSound, PTL

-------------------------------------------------------------------------------
(* What a step may do to a case and to a bond.                                *)

(* The windows of dispute t.                                                  *)
KeepsWindow(t) ==
    Open(cases.disputes[t]) =>
        /\ cases'.disputes[t].evidenceDeadline = cases.disputes[t].evidenceDeadline
        /\ Cutoff(cases'.disputes[t]) = Cutoff(cases.disputes[t])
        /\ cases'.disputes[t].status = "SETTLED" =>
              /\ now > cases.disputes[t].evidenceDeadline
              /\ now <= Cutoff(cases.disputes[t]) =>
                    /\ cases.disputes[t].arbitrator # Nobody
                    /\ cases'.disputes[t].slashed = 0
              /\ now > Cutoff(cases.disputes[t]) => cases'.disputes[t].outcome = "MUTUAL"

(* An open case is cut off a ruling window after its evidence window.          *)
FixedCutoff(d) ==
    /\ Cutoff(d) = d.evidenceDeadline + RulingWindow
    /\ d.evidenceDeadline \in Nat /\ now \in Nat
    /\ RulingWindow \in Nat \ {0}
    /\ d.slashed = 0
    /\ d.status = "RULING" => now > d.evidenceDeadline

(* The cutoff of an open case is its evidence deadline and one ruling        *)
(* window.                                                                   *)
LEMMA CutoffFixed ==
    ASSUME Assumed, Inv, NEW t \in Tasks, Open(cases.disputes[t])
    PROVE  FixedCutoff(cases.disputes[t])
<1>1. RulingWindow \in Nat \ {0}
  BY ConstantFacts
<1>2. now \in Nat
  BY DEF Inv
<1>3. OnTime(cases.disputes[t])
  BY OnTimeBefore
<1>4. cases.disputes[t].evidenceDeadline \in Nat
  BY Before
<1>5. /\ cases.disputes[t].slashed = 0
      /\ cases.disputes[t].status = "EVIDENCE" => cases.disputes[t].rulingDeadline = 0
      /\ cases.disputes[t].status = "RULING" =>
            /\ cases.disputes[t].rulingDeadline =
                  cases.disputes[t].evidenceDeadline + RulingWindow
            /\ now > cases.disputes[t].evidenceDeadline
      /\ cases.disputes[t].status = "EVIDENCE" \/ cases.disputes[t].status = "RULING"
  BY <1>3 DEF OnTime, Open
<1>6. Cutoff(cases.disputes[t]) = cases.disputes[t].evidenceDeadline + RulingWindow
  BY <1>1, <1>4, <1>5 DEF Cutoff
<1> QED
  BY <1>1, <1>2, <1>4, <1>5, <1>6 DEF FixedCutoff

(* A dispute that stays as it is keeps its window.                           *)
LEMMA SameWindow ==
    ASSUME NEW t, cases'.disputes[t] = cases.disputes[t]
    PROVE  KeepsWindow(t)
  BY DEF KeepsWindow, Cutoff, Open

(* A ruling comes after the evidence deadline and not after the cutoff.      *)
LEMMA RuleWindow ==
    ASSUME Assumed, Inv, NEW t \in Tasks, SomebodyRules(t),
           Open(cases.disputes[t])
    PROVE  KeepsWindow(t)
<1>1. PICK outcome, bps : ArbitratorRules(t, outcome, bps)
  BY DEF SomebodyRules
<1>2. CanRule(cases, bondVault, t, outcome, bps, now)
  BY <1>1 DEF ArbitratorRules
<1>3. Ruled(t)
  BY RuleFacts
<1>4. /\ cases'.disputes[t].evidenceDeadline = cases.disputes[t].evidenceDeadline
      /\ cases'.disputes[t].rulingDeadline = RulingCloses(cases.disputes[t])
      /\ cases'.disputes[t].slashed = cases.disputes[t].slashed
  BY <1>3 DEF Ruled
<1>5. /\ Cutoff(cases.disputes[t]) = cases.disputes[t].evidenceDeadline + RulingWindow
      /\ cases.disputes[t].evidenceDeadline \in Nat /\ now \in Nat
      /\ RulingWindow \in Nat \ {0}
      /\ cases.disputes[t].slashed = 0
      /\ cases.disputes[t].status = "RULING" => now > cases.disputes[t].evidenceDeadline
  <2>1. FixedCutoff(cases.disputes[t])
    BY CutoffFixed
  <2> QED
    BY <2>1 DEF FixedCutoff
<1>6. RulingCloses(cases.disputes[t]) = cases.disputes[t].evidenceDeadline + RulingWindow
  <2>1. OnTime(cases.disputes[t])
    BY OnTimeBefore
  <2> QED
    BY <2>1 DEF OnTime, Open, RulingCloses
<1>7. Ruling(cases, t).disputes[t].rulingDeadline = RulingCloses(cases.disputes[t])
  <2>1. CASE cases.disputes[t].status = "EVIDENCE"
    <3>1. CasesGood(cases)
      BY DEF Inv
    <3>2. Turns(cases, BeginRuling(cases, t), t, cases.disputes[t].arbitrator,
                cases.disputes[t].evidenceDeadline,
                cases.disputes[t].evidenceDeadline + RulingWindow, "RULING",
                cases.disputes[t].slashed)
      BY <3>1, BeginTurns
    <3>3. BeginRuling(cases, t).disputes[t].rulingDeadline =
             cases.disputes[t].evidenceDeadline + RulingWindow
      BY <3>2 DEF Turns
    <3> QED
      BY <2>1, <3>3 DEF Ruling, RulingCloses
  <2>2. CASE cases.disputes[t].status # "EVIDENCE"
    BY <2>2 DEF Ruling, RulingCloses
  <2> QED
    BY <2>1, <2>2
<1>8. now <= cases.disputes[t].evidenceDeadline + RulingWindow
  BY <1>2, <1>6, <1>7 DEF CanRule
<1>9. now > cases.disputes[t].evidenceDeadline /\ cases.disputes[t].arbitrator # Nobody
  <2>1. /\ cases.disputes[t].arbitrator # Nobody
        /\ cases.disputes[t].status = "EVIDENCE" => now > cases.disputes[t].evidenceDeadline
    BY <1>2 DEF CanRule, CanBeginRuling
  <2> QED
    BY <1>5, <2>1 DEF Open
<1>10. Cutoff(cases'.disputes[t]) = cases.disputes[t].evidenceDeadline + RulingWindow
  BY <1>4, <1>5, <1>6 DEF Cutoff
<1> QED
  BY <1>4, <1>5, <1>8, <1>9, <1>10 DEF KeepsWindow

(* A timeout comes after the cutoff.                                         *)
LEMMA LapseWindow ==
    ASSUME Assumed, Inv, NEW t \in Tasks, CaseLapses(t)
    PROVE  KeepsWindow(t)
<1>1. Lapsed(t)
  BY TimeoutFacts
<1>2. /\ Open(cases.disputes[t]) /\ now > Cutoff(cases.disputes[t])
      /\ cases'.disputes[t].evidenceDeadline = cases.disputes[t].evidenceDeadline
      /\ cases'.disputes[t].rulingDeadline = cases.disputes[t].rulingDeadline
      /\ cases'.disputes[t].outcome = "MUTUAL"
  BY <1>1 DEF Lapsed
<1>3. /\ Cutoff(cases.disputes[t]) = cases.disputes[t].evidenceDeadline + RulingWindow
      /\ cases.disputes[t].evidenceDeadline \in Nat /\ now \in Nat
      /\ RulingWindow \in Nat \ {0}
  <2>1. FixedCutoff(cases.disputes[t])
    BY <1>2, CutoffFixed
  <2> QED
    BY <2>1 DEF FixedCutoff
<1>4. Cutoff(cases'.disputes[t]) = Cutoff(cases.disputes[t])
  BY <1>2 DEF Cutoff
<1>5. now > cases.disputes[t].evidenceDeadline
  BY <1>2, <1>3
<1>6. ~(now <= Cutoff(cases.disputes[t]))
  BY <1>2, <1>3
<1> QED
  BY <1>2, <1>4, <1>5, <1>6 DEF KeepsWindow

(* Opening a case moves no window of another.                                *)
LEMMA OpenWindow ==
    ASSUME Assumed, Inv, NEW t \in Tasks, NEW p, NEW w, RegistryOpens(t, p, w)
    PROVE  KeepsWindow(t) /\ OthersSame(t)
<1>1. CasesGood(cases) /\ now \in Nat
  BY DEF Inv
<1>2. /\ cases' = OpenDispute(cases, bondVault, t, p, w, now)
      /\ cases.disputes[t].status = "NONE"
  BY DEF RegistryOpens, CanOpenDispute
<1>3. Turns(cases, cases', t, NextArbitrator(cases, bondVault, p, w),
            now + EvidenceWindow, 0, "EVIDENCE", 0)
  BY <1>1, <1>2, OpenTurns
<1>4. OthersSame(t)
  BY <1>3 DEF Turns, OthersSame
<1>5. KeepsWindow(t)
  BY <1>2 DEF KeepsWindow, Open
<1> QED
  BY <1>4, <1>5

(* Assigning a case moves no window.                                         *)
LEMMA AssignWindow ==
    ASSUME Assumed, Inv, NEW t \in Tasks, NEW p, NEW w,
           SomebodyAssigns(t, p, w)
    PROVE  KeepsWindow(t) /\ OthersSame(t)
<1> DEFINE a == NextArbitrator(cases, bondVault, p, w)
<1>1. CasesGood(cases) /\ now \in Nat
  BY DEF Inv
<1>2. /\ CanAssignArbitrator(cases, bondVault, t, p, w, now)
      /\ cases' = AssignArbitrator(cases, bondVault, t, p, w, now)
  BY DEF SomebodyAssigns
<1>3. cases.disputes[t].status = "EVIDENCE"
  BY <1>2, InEvidence
<1>4. Turns(cases, AssignArbitrator(cases, bondVault, t, p, w, now), t, a,
            cases.disputes[t].evidenceDeadline, cases.disputes[t].rulingDeadline,
            "EVIDENCE", cases.disputes[t].slashed)
  BY <1>1, <1>3, AssignTurns
<1> HIDE DEF a
<1>5. Turns(cases, cases', t, a, cases.disputes[t].evidenceDeadline,
            cases.disputes[t].rulingDeadline, "EVIDENCE", cases.disputes[t].slashed)
  BY <1>2, <1>4
<1>6. /\ cases'.disputes[t].evidenceDeadline = cases.disputes[t].evidenceDeadline
      /\ cases'.disputes[t].rulingDeadline = cases.disputes[t].rulingDeadline
      /\ cases'.disputes[t].status = "EVIDENCE" /\ OthersSame(t)
  BY <1>5 DEF Turns, OthersSame
<1>7. KeepsWindow(t)
  BY <1>6 DEF KeepsWindow, Cutoff
<1> QED
  BY <1>6, <1>7

(* Beginning a ruling sets the cutoff to what it was bound to be.            *)
LEMMA BeginWindow ==
    ASSUME Assumed, Inv, NEW t \in Tasks, SomebodyBegins(t)
    PROVE  KeepsWindow(t) /\ OthersSame(t)
<1>1. CasesGood(cases)
  BY DEF Inv
<1>2. cases' = BeginRuling(cases, t) /\ cases.disputes[t].status = "EVIDENCE"
  BY DEF SomebodyBegins, CanBeginRuling
<1>3. Turns(cases, BeginRuling(cases, t), t, cases.disputes[t].arbitrator,
            cases.disputes[t].evidenceDeadline,
            cases.disputes[t].evidenceDeadline + RulingWindow, "RULING",
            cases.disputes[t].slashed)
  BY <1>1, BeginTurns
<1>4. Turns(cases, cases', t, cases.disputes[t].arbitrator,
            cases.disputes[t].evidenceDeadline,
            cases.disputes[t].evidenceDeadline + RulingWindow, "RULING",
            cases.disputes[t].slashed)
  BY <1>2, <1>3
<1>5. /\ cases'.disputes[t].evidenceDeadline = cases.disputes[t].evidenceDeadline
      /\ cases'.disputes[t].rulingDeadline = cases.disputes[t].evidenceDeadline + RulingWindow
      /\ cases'.disputes[t].status = "RULING" /\ OthersSame(t)
  BY <1>4 DEF Turns, OthersSame
<1>6. /\ Cutoff(cases.disputes[t]) = cases.disputes[t].evidenceDeadline + RulingWindow
      /\ cases.disputes[t].evidenceDeadline \in Nat /\ RulingWindow \in Nat \ {0}
  <2>1. Open(cases.disputes[t])
    BY <1>2 DEF Open
  <2>2. FixedCutoff(cases.disputes[t])
    BY <2>1, CutoffFixed
  <2> QED
    BY <2>2 DEF FixedCutoff
<1>7. Cutoff(cases'.disputes[t]) = Cutoff(cases.disputes[t])
  BY <1>5, <1>6 DEF Cutoff
<1>8. KeepsWindow(t)
  BY <1>5, <1>7 DEF KeepsWindow
<1> QED
  BY <1>5, <1>8

(* The end of a case honours its window and moves no other.                  *)
LEMMA EndsWindow ==
    ASSUME Assumed, Inv, NEW t \in Tasks, SomebodyRules(t) \/ CaseLapses(t)
    PROVE  KeepsWindow(t) /\ OthersSame(t)
<1>1. CASE SomebodyRules(t)
  <2>1. Ruled(t)
    BY <1>1, RuleFacts
  <2>2. Open(cases.disputes[t]) /\ OthersSame(t)
    BY <2>1 DEF Ruled, Closes
  <2> QED
    BY <1>1, <2>2, RuleWindow
<1>2. CASE CaseLapses(t)
  <2>1. Lapsed(t)
    BY <1>2, TimeoutFacts
  <2>2. OthersSame(t)
    BY <2>1 DEF Lapsed
  <2> QED
    BY <1>2, <2>2, LapseWindow
<1> QED
  BY <1>1, <1>2

(* A step on dispute t, or on none.                                           *)
LEMMA WindowKept ==
    ASSUME NEW t \in Tasks, KeepsWindow(t), OthersSame(t), NEW u \in Tasks
    PROVE  KeepsWindow(u)
<1>1. CASE u = t
  BY <1>1
<1>2. CASE u # t
  <2>1. cases'.disputes[u] = cases.disputes[u]
    BY <1>2 DEF OthersSame
  <2> QED
    BY <2>1, SameWindow
<1> QED
  BY <1>1, <1>2

(* Every step honours every window.                                          *)
LEMMA NextKeepsWindows ==
    ASSUME Assumed, Inv, [Step]_vars, NEW u \in Tasks
    PROVE  KeepsWindow(u)
<1>1. ASSUME cases'.disputes = cases.disputes
      PROVE  KeepsWindow(u)
  BY <1>1, SameWindow
<1>2. CASE UNCHANGED vars
  BY <1>1, <1>2 DEF vars
<1>3. CASE Step
  <2>1. ASSUME NEW x \in Verifiers, NEW n \in Nat, PostBond(x, n) \/ VerifierWithdraws(x, n)
        PROVE  KeepsWindow(u)
    BY <1>1, <2>1 DEF PostBond, VerifierWithdraws
  <2>2. ASSUME NEW x \in Verifiers, VerifierSchedules(x)
        PROVE  KeepsWindow(u)
    BY <1>1, <2>2 DEF VerifierSchedules
  <2>3. ASSUME NEW x \in Verifiers, OwnerAdds(x) \/ OwnerRemoves(x)
        PROVE  KeepsWindow(u)
    <3>1. "disputes" \in DOMAIN cases
      BY DEF Inv, CasesGood
    <3>2. AddPanelMember(cases, x).disputes = cases.disputes
      BY <3>1 DEF AddPanelMember
    <3>3. RemovePanelMember(cases, x).disputes = cases.disputes
      BY <3>1 DEF RemovePanelMember
    <3> QED
      BY <1>1, <2>3, <3>2, <3>3 DEF OwnerAdds, OwnerRemoves
  <2>4. ASSUME NEW t \in Tasks, Opens(t)
        PROVE  KeepsWindow(u)
    BY <2>4, OpenWindow, WindowKept DEF Opens
  <2>5. ASSUME NEW t \in Tasks, Assigns(t)
        PROVE  KeepsWindow(u)
    BY <2>5, AssignWindow, WindowKept DEF Assigns
  <2>6. ASSUME NEW t \in Tasks, SomebodyBegins(t)
        PROVE  KeepsWindow(u)
    BY <2>6, BeginWindow, WindowKept
  <2>7. ASSUME NEW t \in Tasks, CaseLapses(t) \/ SomebodyRules(t)
        PROVE  KeepsWindow(u)
    BY <2>7, EndsWindow, WindowKept
  <2>8. CASE TreasuryPulls \/ Tick
    BY <1>1, <2>8 DEF TreasuryPulls, Tick
  <2> QED
    BY <1>3, <2>1, <2>2, <2>3, <2>4, <2>5, <2>6, <2>7, <2>8, StepCases
<1> QED
  BY <1>2, <1>3

(* Whoever the parties are.                                                   *)
LEMMA WindowsKept == []Inv /\ [][Step]_vars => WindowsHonoured
<1>1. Inv /\ [Step]_vars => \A t \in Tasks : KeepsWindow(t)
  BY AssumptionHolds, NextKeepsWindows
<1>2. (\A t \in Tasks : KeepsWindow(t)) =>
         \A t \in Tasks :
            LET d == cases.disputes[t]
                e == cases'.disputes[t]
            IN  Open(d) =>
                  /\ e.evidenceDeadline = d.evidenceDeadline /\ Cutoff(e) = Cutoff(d)
                  /\ e.status = "SETTLED" =>
                        /\ now > d.evidenceDeadline
                        /\ now <= Cutoff(d) => d.arbitrator # Nobody /\ e.slashed = 0
                        /\ now > Cutoff(d) => e.outcome = "MUTUAL"
  BY DEF KeepsWindow
<1> QED
  BY <1>1, <1>2, PTL DEF WindowsHonoured

(* The parties' evidence window and the absolute cutoff hold for every length  *)
(* of the windows (ArbitrationModuleV2.rule, timeout, assignArbitrator).      *)
THEOREM ArbitrationWindows == Spec => WindowsHonoured
  BY WindowsKept, NextSteps, ArbitrationSound, PTL DEF Spec

-------------------------------------------------------------------------------
(* The bond of verifier x.                                                    *)
KeepsBond(x) ==
    LET lost == bondVault.bonds[x] - bondVault'.bonds[x]
    IN  lost > 0 =>
          \/ bondVault.withdrawReadyAt[x] \in 1..now /\ OpenCases(x) = {}
          \/ /\ lost <= (MinimumBond * SlashCapBps) \div 10000
             /\ \E t \in OpenCases(x) :
                   now > Cutoff(cases.disputes[t]) /\ cases'.disputes[t].slashed = lost

(* A bond that did not shrink is kept.                                       *)
LEMMA BondNotLess ==
    ASSUME Inv, NEW x \in Verifiers,
           bondVault'.bonds[x] \in Nat, bondVault'.bonds[x] >= bondVault.bonds[x]
    PROVE  KeepsBond(x)
<1>1. bondVault.bonds[x] \in Nat
  BY DEF Inv, BondsGood
<1>2. ~(bondVault.bonds[x] - bondVault'.bonds[x] > 0)
  BY <1>1
<1> QED
  BY <1>2 DEF KeepsBond

(* So are bonds that stayed as they were.                                    *)
LEMMA SameBonds ==
    ASSUME Inv, NEW x \in Verifiers, bondVault'.bonds = bondVault.bonds
    PROVE  KeepsBond(x)
<1>1. bondVault.bonds[x] \in Nat
  BY DEF Inv, BondsGood
<1> QED
  BY <1>1, BondNotLess

(* Posting a bond shrinks none.                                              *)
LEMMA PostKeepsBonds ==
    ASSUME Assumed, Inv, NEW x \in Verifiers, NEW n \in Nat, PostBond(x, n),
           NEW y \in Verifiers
    PROVE  KeepsBond(y)
<1>1. bondVault' = Bonds!Bond(bondVault, x, n) /\ BondsGood(bondVault) /\ Funded(bondVault)
  BY DEF PostBond, Inv
<1>2. Moves(bondVault, bondVault', x, 0, 0, n)
  BY <1>1, BondFacts
<1>3. bondVault.bonds[y] \in Nat
  BY <1>1 DEF BondsGood
<1>4. bondVault'.bonds[y] = bondVault.bonds[y] + n \/ bondVault'.bonds[y] = bondVault.bonds[y]
  BY <1>2 DEF Moves
<1>5. bondVault'.bonds[y] \in Nat /\ bondVault'.bonds[y] >= bondVault.bonds[y]
  BY <1>3, <1>4
<1> QED
  BY <1>5, BondNotLess

(* A withdrawal shrinks the bond of its owner, idle and past the cooldown,   *)
(* only.                                                                     *)
LEMMA WithdrawKeepsBonds ==
    ASSUME Assumed, Inv, NEW x \in Verifiers, NEW n \in Nat,
           VerifierWithdraws(x, n), NEW y \in Verifiers
    PROVE  KeepsBond(y)
<1>1. /\ bondVault' = Bonds!WithdrawBond(bondVault, x, n)
      /\ bondVault.activeAssignments[x] = 0
      /\ bondVault.withdrawReadyAt[x] # 0 /\ now >= bondVault.withdrawReadyAt[x]
      /\ n <= bondVault.bonds[x] /\ n <= bondVault.totalBonded /\ n <= bondVault.balance
  BY DEF VerifierWithdraws, Bonds!CanWithdrawBond
<1>2. CASE y = x
  <2>1. now \in Nat /\ bondVault.withdrawReadyAt[x] \in Nat
    BY DEF Inv, BondsGood
  <2>2. bondVault.withdrawReadyAt[x] \in 1..now
    BY <1>1, <2>1
  <2>3. OpenCases(x) = {}
    BY <1>1, IdleHasNoCase
  <2> QED
    BY <1>2, <2>2, <2>3 DEF KeepsBond
<1>3. CASE y # x
  <2>1. Moves(bondVault, bondVault', x, 0, 0, -n)
    BY <1>1, WithdrawFacts DEF Inv
  <2>2. bondVault'.bonds[y] = bondVault.bonds[y]
    BY <1>3, <2>1 DEF Moves
  <2>3. bondVault.bonds[y] \in Nat
    BY DEF Inv, BondsGood
  <2> QED
    BY <2>2, <2>3, BondNotLess
<1> QED
  BY <1>2, <1>3

(* Reserving a bond does not touch it.                                        *)
LEMMA AssignedBonds ==
    ASSUME NEW b, BondsGood(b), NEW a
    PROVE  Assigned(b, a).bonds = b.bonds
  BY DEF BondsGood, Assigned, Bonds!Assign

(* A timeout shrinks the bond of the arbitrator that let the case lapse      *)
(* only, within the cap.                                                     *)
LEMMA LapseKeepsBonds ==
    ASSUME Assumed, Inv, NEW t \in Tasks, CaseLapses(t), NEW x \in Verifiers
    PROVE  KeepsBond(x)
<1> DEFINE a == cases.disputes[t].arbitrator
           n == SlashAmount(cases, bondVault, t)
<1>1. /\ Open(cases.disputes[t]) /\ now > Cutoff(cases.disputes[t])
      /\ cases'.disputes[t].slashed = n
  <2>1. Lapsed(t)
    BY TimeoutFacts
  <2> QED
    BY <2>1 DEF Lapsed
<1>2. bondVault' = bondVault \/ (a \in Verifiers /\ Closes(t, a, n))
  <2>1. LapsedBonds(t)
    BY TimeoutBonds
  <2> QED
    BY <2>1 DEF LapsedBonds
<1>3. n \in Nat /\ n <= (MinimumBond * SlashCapBps) \div 10000
  BY <1>1, SlashBounds DEF SlashCap
<1> HIDE DEF n
<1>4. CASE bondVault' = bondVault
  BY <1>4, SameBonds
<1>5. CASE a \in Verifiers /\ Closes(t, a, n)
  <2>1. Moves(bondVault, bondVault', a, -1, -MinimumBond, 0 - n)
    BY <1>5 DEF Closes
  <2>2. bondVault.bonds[x] \in Nat
    BY DEF Inv, BondsGood
  <2>3. CASE x = a
    <3>1. bondVault'.bonds[x] = bondVault.bonds[x] + (0 - n)
      BY <2>1, <2>3 DEF Moves
    <3>2. bondVault.bonds[x] - bondVault'.bonds[x] = n
      BY <1>3, <2>2, <3>1
    <3>3. t \in OpenCases(x)
      BY <1>1, <2>3 DEF OpenCases
    <3> QED
      BY <1>1, <1>3, <3>2, <3>3 DEF KeepsBond
  <2>4. CASE x # a
    <3>1. bondVault'.bonds[x] = bondVault.bonds[x]
      BY <2>1, <2>4 DEF Moves
    <3> QED
      BY <2>2, <3>1, BondNotLess
  <2> QED
    BY <2>3, <2>4
<1> QED
  BY <1>2, <1>4, <1>5

(* No step shrinks a bond but for cause.                                     *)
LEMMA NextKeepsBonds ==
    ASSUME Assumed, Inv, [Step]_vars, NEW x \in Verifiers
    PROVE  KeepsBond(x)
<1>1. BondsGood(bondVault)
  BY DEF Inv
<1>2. CASE UNCHANGED vars
  BY <1>2, SameBonds DEF vars
<1>3. CASE Step
  <2>1. ASSUME NEW y \in Verifiers, NEW n \in Nat, PostBond(y, n)
        PROVE  KeepsBond(x)
    BY <2>1, PostKeepsBonds
  <2>2. ASSUME NEW y \in Verifiers, NEW n \in Nat, VerifierWithdraws(y, n)
        PROVE  KeepsBond(x)
    BY <2>2, WithdrawKeepsBonds
  <2>3. ASSUME NEW y \in Verifiers, VerifierSchedules(y)
        PROVE  KeepsBond(x)
    <3>1. bondVault'.bonds = bondVault.bonds
      BY <1>1, <2>3 DEF VerifierSchedules, BondsGood, Bonds!ScheduleWithdrawal
    <3> QED
      BY <3>1, SameBonds
  <2>4. ASSUME NEW y \in Verifiers, OwnerAdds(y) \/ OwnerRemoves(y)
        PROVE  KeepsBond(x)
    BY <2>4, SameBonds DEF OwnerAdds, OwnerRemoves
  <2>5. ASSUME NEW t \in Tasks, Opens(t) \/ Assigns(t)
        PROVE  KeepsBond(x)
    <3>1. PICK a : bondVault' = Assigned(bondVault, a)
      BY <2>5 DEF Opens, Assigns, RegistryOpens, SomebodyAssigns
    <3>2. bondVault'.bonds = bondVault.bonds
      BY <1>1, <3>1, AssignedBonds
    <3> QED
      BY <3>2, SameBonds
  <2>6. ASSUME NEW t \in Tasks, SomebodyBegins(t)
        PROVE  KeepsBond(x)
    BY <2>6, SameBonds DEF SomebodyBegins
  <2>7. ASSUME NEW t \in Tasks, CaseLapses(t)
        PROVE  KeepsBond(x)
    BY <2>7, LapseKeepsBonds
  <2>8. ASSUME NEW t \in Tasks, SomebodyRules(t)
        PROVE  KeepsBond(x)
    <3>1. Ruled(t)
      BY <2>8, RuleFacts
    <3>2. bondVault'.bonds = bondVault.bonds
      BY <3>1 DEF Ruled
    <3> QED
      BY <3>2, SameBonds
  <2>9. CASE TreasuryPulls
    <3>1. bondVault'.bonds = bondVault.bonds
      BY <1>1, <2>9 DEF TreasuryPulls, BondsGood, Bonds!ClaimSlash
    <3> QED
      BY <3>1, SameBonds
  <2>10. CASE Tick
    BY <2>10, SameBonds DEF Tick
  <2> QED
    BY <1>3, <2>1, <2>2, <2>3, <2>4, <2>5, <2>6, <2>7, <2>8, <2>9, <2>10, StepCases
<1> QED
  BY <1>2, <1>3

(* Whoever the parties are.                                                   *)
LEMMA BondsKeptForCause == []Inv /\ [][Step]_vars => BondsTakenOnlyForCause
<1>1. Inv /\ [Step]_vars => \A x \in Verifiers : KeepsBond(x)
  BY AssumptionHolds, NextKeepsBonds
<1>2. (\A x \in Verifiers : KeepsBond(x)) =>
         \A x \in Verifiers :
            LET lost == bondVault.bonds[x] - bondVault'.bonds[x]
            IN  lost > 0 =>
                  \/ /\ bondVault.withdrawReadyAt[x] \in 1..now
                     /\ OpenCases(x) = {}
                  \/ /\ lost <= (MinimumBond * SlashCapBps) \div 10000
                     /\ \E t \in OpenCases(x) :
                           now > Cutoff(cases.disputes[t]) /\ cases'.disputes[t].slashed = lost
  BY DEF KeepsBond
<1> QED
  BY <1>1, <1>2, PTL DEF BondsTakenOnlyForCause

(* No sequence of calls takes more of a bond than one lapsed case may cost, or *)
(* lets its owner take any while it serves (VerifierBondVaultV2.withdrawBond,  *)
(* slashAndRelease; ArbitrationModuleV2.timeout).                            *)
THEOREM ArbitrationBondsForCause == Spec => BondsTakenOnlyForCause
  BY BondsKeptForCause, NextSteps, ArbitrationSound, PTL DEF Spec

-------------------------------------------------------------------------------
(* The panel's eligible members.                                              *)
KeepsPanel ==
    EligiblePanel # {} /\ EligiblePanel' = {} =>
        \E x \in EligiblePanel :
            bondVault'.activeAssignments[x] > bondVault.activeAssignments[x]

(* An eligible member of the panel sits on it, is authorised and eligible    *)
(* in the vault.                                                             *)
LEMMA SeatFacts ==
    ASSUME Inv, NEW x \in EligiblePanel
    PROVE  /\ x \in Verifiers /\ x \in Range(cases.panel) \ {Nobody}
           /\ cases.authorized[x] /\ Bonds!IsEligible(bondVault, x)
<1>1. x \in Range(cases.panel) \ {Nobody} /\ cases.authorized[x] /\ Bonds!IsEligible(bondVault, x)
  BY DEF EligiblePanel
<1>2. cases.panel \in Seq(Verifiers \union {Nobody})
  BY DEF Inv, CasesGood
<1>3. \A i \in DOMAIN cases.panel : cases.panel[i] \in Verifiers \union {Nobody}
  BY <1>2
<1>4. x \in Verifiers
  BY <1>1, <1>3 DEF Range
<1> QED
  BY <1>1, <1>4

(* A member who keeps seat, authority and eligibility.                         *)
LEMMA StaysSeated ==
    ASSUME Inv, NEW x \in EligiblePanel, x \in Range(cases'.panel), cases'.authorized[x],
           Bonds!IsEligible(bondVault', x)
    PROVE  KeepsPanel
<1>1. x \in EligiblePanel'
  BY SeatFacts DEF EligiblePanel, Bonds!IsEligible, Bonds!AssignmentReserve
<1> QED
  BY <1>1 DEF KeepsPanel

(* The panel is kept if it is the same and one of its eligible members is    *)
(* still eligible.                                                           *)
LEMMA SamePanel ==
    ASSUME Inv, NEW x \in EligiblePanel,
           cases'.panel = cases.panel, cases'.authorized = cases.authorized,
           Bonds!IsEligible(bondVault', x)
    PROVE  KeepsPanel
  BY SeatFacts, StaysSeated

(* A verifier whose entries did not change is as eligible as before.         *)
LEMMA SameBooks ==
    ASSUME NEW x, Bonds!IsEligible(bondVault, x),
           bondVault'.bonds[x] = bondVault.bonds[x],
           bondVault'.reservedSlash[x] = bondVault.reservedSlash[x],
           bondVault'.withdrawReadyAt[x] = bondVault.withdrawReadyAt[x]
    PROVE  Bonds!IsEligible(bondVault', x)
  BY DEF Bonds!IsEligible

(* Another eligible member, where the code looks for one.                      *)
LEMMA OtherSeated ==
    ASSUME NEW x, HasOtherEligible(cases, bondVault, x)
    PROVE  \E y \in EligiblePanel : y # x
  BY DEF HasOtherEligible, EligiblePanel

(* Posting a bond keeps the panel.                                           *)
LEMMA PostKeepsPanel ==
    ASSUME Assumed, Inv, NEW y \in Verifiers, NEW n \in Nat, PostBond(y, n),
           NEW x \in EligiblePanel
    PROVE  KeepsPanel
<1>1. /\ bondVault' = Bonds!Bond(bondVault, y, n) /\ cases' = cases
      /\ BondsGood(bondVault) /\ Funded(bondVault)
  BY DEF PostBond, Inv
<1>2. /\ Moves(bondVault, bondVault', y, 0, 0, n) /\ bondVault'.withdrawReadyAt[y] = 0
      /\ \A z \in Verifiers \ {y} :
            bondVault'.withdrawReadyAt[z] = bondVault.withdrawReadyAt[z]
  BY <1>1, BondFacts
<1>3. x \in Verifiers /\ Bonds!IsEligible(bondVault, x)
  BY SeatFacts
<1>4. CASE x = y
  <2>1. /\ bondVault'.bonds[x] = bondVault.bonds[x] + n
        /\ bondVault'.reservedSlash[x] = bondVault.reservedSlash[x] + 0
        /\ bondVault'.withdrawReadyAt[x] = 0
    BY <1>2, <1>4 DEF Moves
  <2>2. bondVault.bonds[x] \in Nat /\ bondVault.reservedSlash[x] \in Nat
    BY <1>1, <1>3 DEF BondsGood
  <2>3. MinimumBond \in Nat
    BY ConstantFacts
  <2>4. Bonds!IsEligible(bondVault', x)
    BY <1>3, <2>1, <2>2, <2>3 DEF Bonds!IsEligible, Bonds!AssignmentReserve
  <2> QED
    BY <1>1, <2>4, SamePanel
<1>5. CASE x # y
  <2>1. /\ bondVault'.bonds[x] = bondVault.bonds[x]
        /\ bondVault'.reservedSlash[x] = bondVault.reservedSlash[x]
        /\ bondVault'.withdrawReadyAt[x] = bondVault.withdrawReadyAt[x]
    BY <1>2, <1>3, <1>5 DEF Moves
  <2> QED
    BY <1>1, <1>3, <2>1, SameBooks, SamePanel
<1> QED
  BY <1>4, <1>5

(* Who withdraws or schedules was not eligible, or leaves another member.      *)
LEMMA WithdrawKeepsPanel ==
    ASSUME Assumed, Inv, NEW y \in Verifiers, NEW n \in Nat, VerifierWithdraws(y, n),
           NEW x \in EligiblePanel
    PROVE  KeepsPanel
<1>1. /\ bondVault' = Bonds!WithdrawBond(bondVault, y, n) /\ cases' = cases
      /\ bondVault.withdrawReadyAt[y] # 0
      /\ n <= bondVault.bonds[y] /\ n <= bondVault.totalBonded /\ n <= bondVault.balance
  BY DEF VerifierWithdraws, Bonds!CanWithdrawBond
<1>2. x \in Verifiers /\ Bonds!IsEligible(bondVault, x)
  BY SeatFacts
<1>3. x # y
  BY <1>1, <1>2 DEF Bonds!IsEligible
<1>4. BondsGood(bondVault) /\ Funded(bondVault)
  BY DEF Inv
<1>5. /\ Moves(bondVault, bondVault', y, 0, 0, -n)
      /\ \A z \in Verifiers \ {y} :
            bondVault'.withdrawReadyAt[z] = bondVault.withdrawReadyAt[z]
  BY <1>1, <1>4, WithdrawFacts
<1>6. /\ bondVault'.bonds[x] = bondVault.bonds[x]
      /\ bondVault'.reservedSlash[x] = bondVault.reservedSlash[x]
      /\ bondVault'.withdrawReadyAt[x] = bondVault.withdrawReadyAt[x]
  BY <1>2, <1>3, <1>5 DEF Moves
<1> QED
  BY <1>1, <1>2, <1>6, SameBooks, SamePanel

(* Scheduling a withdrawal does, by the exit guard.                          *)
LEMMA ScheduleKeepsPanel ==
    ASSUME Assumed, Inv, NEW y \in Verifiers, VerifierSchedules(y), NEW x \in EligiblePanel
    PROVE  KeepsPanel
<1>1. /\ bondVault' = Bonds!ScheduleWithdrawal(bondVault, y, now) /\ cases' = cases
      /\ MayLeave(cases, bondVault, y)
  BY DEF VerifierSchedules, Bonds!CanScheduleWithdrawal
<1>2. PICK z \in EligiblePanel : z # y
  <2>1. CASE x # y
    BY <2>1
  <2>2. CASE x = y
    <3>1. cases.authorized[y]
      BY <2>2, SeatFacts
    <3>2. HasOtherEligible(cases, bondVault, y)
      BY <1>1, <3>1 DEF MayLeave
    <3> QED
      BY <3>2, OtherSeated
  <2> QED
    BY <2>1, <2>2
<1>3. z \in Verifiers /\ Bonds!IsEligible(bondVault, z)
  BY SeatFacts
<1>4. /\ BondsGood(bondVault) /\ Funded(bondVault) /\ now \in Nat
      /\ WithdrawalCooldown \in Nat
  BY ConstantFacts DEF Inv
<1>5. /\ Moves(bondVault, bondVault', y, 0, 0, 0)
      /\ \A v \in Verifiers \ {y} :
            bondVault'.withdrawReadyAt[v] = bondVault.withdrawReadyAt[v]
  BY <1>1, <1>4, ScheduleFacts
<1>6. /\ bondVault'.bonds[z] = bondVault.bonds[z]
      /\ bondVault'.reservedSlash[z] = bondVault.reservedSlash[z]
      /\ bondVault'.withdrawReadyAt[z] = bondVault.withdrawReadyAt[z]
  BY <1>2, <1>3, <1>5 DEF Moves
<1> QED
  BY <1>1, <1>3, <1>6, SameBooks, SamePanel

(* Adding a member does.                                                     *)
LEMMA AddKeepsPanel ==
    ASSUME Assumed, Inv, NEW y \in Verifiers, OwnerAdds(y), NEW x \in EligiblePanel
    PROVE  KeepsPanel
<1>1. cases' = AddPanelMember(cases, y) /\ bondVault' = bondVault
  BY DEF OwnerAdds
<1>2. /\ cases'.panel = Append(cases.panel, y)
      /\ cases'.authorized = [cases.authorized EXCEPT ![y] = TRUE]
  BY <1>1 DEF AddPanelMember, Inv, CasesGood
<1>3. /\ cases.panel \in Seq(Verifiers \union {Nobody})
      /\ cases.authorized \in [Verifiers -> BOOLEAN]
  BY DEF Inv, CasesGood
<1>4. /\ x \in Verifiers /\ x \in Range(cases.panel)
      /\ cases.authorized[x] /\ Bonds!IsEligible(bondVault, x)
  BY SeatFacts
<1>5. cases'.authorized[x]
  BY <1>2, <1>3, <1>4
<1>6. x \in Range(cases'.panel)
  <2>1. PICK i \in DOMAIN cases.panel : x = cases.panel[i]
    BY <1>4 DEF Range
  <2>2. i \in 1..Len(cases.panel) /\ Len(cases.panel) \in Nat
    BY <1>3, <2>1
  <2>3. i \in DOMAIN Append(cases.panel, y) /\ Append(cases.panel, y)[i] = cases.panel[i]
    BY <1>3, <2>2
  <2> QED
    BY <1>2, <2>1, <2>3 DEF Range
<1> QED
  BY <1>1, <1>4, <1>5, <1>6, StaysSeated

(* Who is removed was not eligible, or leaves another member.                  *)
LEMMA RemoveKeepsPanel ==
    ASSUME Assumed, Inv, NEW y \in Verifiers, OwnerRemoves(y), NEW x \in EligiblePanel
    PROVE  KeepsPanel
<1>1. /\ cases' = RemovePanelMember(cases, y) /\ bondVault' = bondVault
      /\ Bonds!IsEligible(bondVault, y) => HasOtherEligible(cases, bondVault, y)
  BY DEF OwnerRemoves, CanRemovePanelMember
<1>2. /\ cases'.panel = [i \in DOMAIN cases.panel |->
                           IF cases.panel[i] = y THEN Nobody ELSE cases.panel[i]]
      /\ cases'.authorized = [cases.authorized EXCEPT ![y] = FALSE]
  BY <1>1 DEF RemovePanelMember, Inv, CasesGood
<1>3. PICK z \in EligiblePanel : z # y
  <2>1. CASE x # y
    BY <2>1
  <2>2. CASE x = y
    <3>1. Bonds!IsEligible(bondVault, y)
      BY <2>2, SeatFacts
    <3>2. HasOtherEligible(cases, bondVault, y)
      BY <1>1, <3>1
    <3> QED
      BY <3>2, OtherSeated
  <2> QED
    BY <2>1, <2>2
<1>4. /\ z \in Verifiers /\ z \in Range(cases.panel)
      /\ cases.authorized[z] /\ Bonds!IsEligible(bondVault, z)
  BY SeatFacts
<1>5. cases'.authorized[z]
  <2>1. cases.authorized \in [Verifiers -> BOOLEAN]
    BY DEF Inv, CasesGood
  <2> QED
    BY <1>2, <1>3, <1>4, <2>1
<1>6. z \in Range(cases'.panel)
  <2>1. PICK i \in DOMAIN cases.panel : z = cases.panel[i]
    BY <1>4 DEF Range
  <2>2. i \in DOMAIN cases'.panel /\ cases'.panel[i] = z
    BY <1>2, <1>3, <2>1
  <2> QED
    BY <2>2 DEF Range
<1> QED
  BY <1>1, <1>4, <1>5, <1>6, StaysSeated

-------------------------------------------------------------------------------
(* Disputes leave the panel as it is.                                         *)
LEMMA PanelKept ==
    ASSUME Inv, NEW t \in Tasks,
           Opens(t) \/ Assigns(t) \/ SomebodyBegins(t)
    PROVE  cases'.panel = cases.panel /\ cases'.authorized = cases.authorized
<1>1. {"panel", "assignmentCursor", "authorized", "disputes"} \subseteq DOMAIN cases
  BY DEF Inv, CasesGood
<1>2. ASSUME NEW b, NEW p, NEW w, NEW at
      PROVE  /\ OpenDispute(cases, b, t, p, w, at).panel = cases.panel
             /\ OpenDispute(cases, b, t, p, w, at).authorized = cases.authorized
  BY <1>1 DEF OpenDispute
<1>3. ASSUME NEW b, NEW p, NEW w, NEW at
      PROVE  /\ AssignArbitrator(cases, b, t, p, w, at).panel = cases.panel
             /\ AssignArbitrator(cases, b, t, p, w, at).authorized = cases.authorized
  BY <1>1 DEF AssignArbitrator
<1>4. /\ BeginRuling(cases, t).panel = cases.panel
      /\ BeginRuling(cases, t).authorized = cases.authorized
  BY <1>1 DEF BeginRuling
<1> QED
  BY <1>2, <1>3, <1>4 DEF Opens, Assigns, RegistryOpens, SomebodyAssigns, SomebodyBegins

(* The end of a case changes nobody's seat.                                  *)
LEMMA PanelKeptAtEnd ==
    ASSUME Inv, NEW t \in Tasks, SomebodyRules(t) \/ CaseLapses(t)
    PROVE  cases'.panel = cases.panel /\ cases'.authorized = cases.authorized
<1>1. /\ {"panel", "assignmentCursor", "authorized", "disputes"} \subseteq DOMAIN cases
      /\ DOMAIN cases.disputes = Tasks
  BY DEF Inv, CasesGood
<1>2. ASSUME NEW outcome
      PROVE  /\ Rule(cases, t, outcome).panel = cases.panel
             /\ Rule(cases, t, outcome).authorized = cases.authorized
  <2>1. /\ BeginRuling(cases, t).panel = cases.panel
        /\ BeginRuling(cases, t).authorized = cases.authorized
        /\ DOMAIN BeginRuling(cases, t) = DOMAIN cases
    BY <1>1 DEF BeginRuling
  <2>2. /\ Ruling(cases, t).panel = cases.panel
        /\ Ruling(cases, t).authorized = cases.authorized
        /\ DOMAIN Ruling(cases, t) = DOMAIN cases
    BY <2>1 DEF Ruling
  <2> QED
    BY <1>1, <2>2 DEF Rule
<1>3. ASSUME NEW b
      PROVE  /\ Timeout(cases, b, t).panel = cases.panel
             /\ Timeout(cases, b, t).authorized = cases.authorized
  BY <1>1 DEF Timeout
<1> QED
  BY <1>2, <1>3 DEF SomebodyRules, ArbitratorRules, CaseLapses, SomebodyTimesOut

(* Taking a case is what may end the last eligibility.                         *)
LEMMA TakeKeepsPanel ==
    ASSUME Assumed, Inv, NEW t \in Tasks, Opens(t) \/ Assigns(t),
           NEW x \in EligiblePanel
    PROVE  KeepsPanel
<1>1. PICK a \in Verifiers \union {Nobody} : bondVault' = Assigned(bondVault, a)
  <2>1. CasesGood(cases')
    <3>1. Inv'
      BY TakenStep
    <3> QED
      BY <3>1 DEF Inv
  <2>2. cases'.disputes[t].arbitrator \in Verifiers \union {Nobody}
    BY <2>1 DEF CasesGood, DisputeGood
  <2> QED
    BY <2>2 DEF Opens, Assigns, RegistryOpens, SomebodyAssigns
<1>2. cases'.panel = cases.panel /\ cases'.authorized = cases.authorized
  BY PanelKept
<1>3. x \in Verifiers /\ Bonds!IsEligible(bondVault, x) /\ BondsGood(bondVault)
  BY SeatFacts DEF Inv
<1>4. CASE a = Nobody
  BY <1>1, <1>2, <1>3, <1>4, SamePanel DEF Assigned
<1>5. CASE a # Nobody
  <2>1. bondVault' = Bonds!Assign(bondVault, a) /\ a \in Verifiers
    BY <1>1, <1>5 DEF Assigned
  <2>2. MinimumBond \in Nat
    BY ConstantFacts
  <2>3. /\ Moves(bondVault, bondVault', a, 1, MinimumBond, 0)
        /\ bondVault'.withdrawReadyAt = bondVault.withdrawReadyAt
    BY <1>3, <2>1, <2>2, AssignFacts
  <2>4. CASE x = a
    <3>1. /\ bondVault.activeAssignments[x] \in Nat
          /\ bondVault'.activeAssignments[x] = bondVault.activeAssignments[x] + 1
      BY <1>3, <2>3, <2>4 DEF Moves, BondsGood
    <3>2. bondVault'.activeAssignments[x] > bondVault.activeAssignments[x]
      BY <3>1
    <3> QED
      BY <3>2 DEF KeepsPanel
  <2>5. CASE x # a
    <3>1. /\ bondVault'.bonds[x] = bondVault.bonds[x]
          /\ bondVault'.reservedSlash[x] = bondVault.reservedSlash[x]
      BY <1>3, <2>3, <2>5 DEF Moves
    <3> QED
      BY <1>2, <1>3, <2>3, <3>1, SameBooks, SamePanel
  <2> QED
    BY <2>4, <2>5
<1> QED
  BY <1>4, <1>5

(* A closed case frees its reserve; a slash takes no more than that.           *)
LEMMA CloseKeepsPanel ==
    ASSUME Assumed, Inv, NEW t \in Tasks, NEW a \in Verifiers, NEW n \in Nat, Closes(t, a, n),
           cases'.panel = cases.panel, cases'.authorized = cases.authorized,
           NEW x \in EligiblePanel
    PROVE  KeepsPanel
<1>1. /\ Moves(bondVault, bondVault', a, -1, -MinimumBond, 0 - n) /\ n <= MinimumBond
      /\ bondVault'.withdrawReadyAt = bondVault.withdrawReadyAt
      /\ Open(cases.disputes[t]) /\ cases.disputes[t].arbitrator = a
  BY DEF Closes
<1>2. x \in Verifiers /\ Bonds!IsEligible(bondVault, x) /\ BondsGood(bondVault)
  BY SeatFacts DEF Inv
<1>3. CASE x = a
  <2>1. /\ bondVault'.bonds[x] = bondVault.bonds[x] + (0 - n)
        /\ bondVault'.reservedSlash[x] = bondVault.reservedSlash[x] + (-MinimumBond)
    BY <1>1, <1>3 DEF Moves
  <2>2. /\ bondVault.bonds[x] - bondVault.reservedSlash[x] >= MinimumBond
        /\ bondVault.withdrawReadyAt[x] = 0
    BY <1>2 DEF Bonds!IsEligible, Bonds!AssignmentReserve
  <2>3. MinimumBond <= bondVault.reservedSlash[x]
    BY <1>1, <1>3, HasReserve
  <2>4. /\ bondVault.bonds[x] \in Nat /\ bondVault.reservedSlash[x] \in Nat
        /\ MinimumBond \in Nat
    BY <1>2, ConstantFacts DEF BondsGood
  <2>5. /\ bondVault'.bonds[x] >= MinimumBond
        /\ bondVault'.bonds[x] - bondVault'.reservedSlash[x] >= MinimumBond
    BY <1>1, <2>1, <2>2, <2>3, <2>4
  <2>6. Bonds!IsEligible(bondVault', x)
    BY <1>1, <2>2, <2>5 DEF Bonds!IsEligible, Bonds!AssignmentReserve
  <2> QED
    BY <2>6, SamePanel
<1>4. CASE x # a
  <2>1. /\ bondVault'.bonds[x] = bondVault.bonds[x]
        /\ bondVault'.reservedSlash[x] = bondVault.reservedSlash[x]
    BY <1>1, <1>2, <1>4 DEF Moves
  <2> QED
    BY <1>1, <1>2, <2>1, SameBooks, SamePanel
<1> QED
  BY <1>3, <1>4

(* The end of a case leaves whoever was eligible eligible.                   *)
LEMMA EndKeepsPanel ==
    ASSUME Assumed, Inv, NEW t \in Tasks, SomebodyRules(t) \/ CaseLapses(t),
           NEW x \in EligiblePanel
    PROVE  KeepsPanel
<1>1. cases'.panel = cases.panel /\ cases'.authorized = cases.authorized
  BY PanelKeptAtEnd
<1>2. CASE SomebodyRules(t)
  <2>1. Ruled(t)
    BY <1>2, RuleFacts
  <2>2. cases.disputes[t].arbitrator \in Verifiers /\ Closes(t, cases.disputes[t].arbitrator, 0)
    BY <2>1 DEF Ruled
  <2> QED
    BY <1>1, <2>2, CloseKeepsPanel
<1>3. CASE CaseLapses(t)
  <2>1. Lapsed(t) /\ LapsedBonds(t)
    BY <1>3, TimeoutFacts, TimeoutBonds
  <2>2. Open(cases.disputes[t])
    BY <2>1 DEF Lapsed
  <2>3. SlashAmount(cases, bondVault, t) \in Nat
    BY <2>2, SlashBounds
  <2>4. CASE bondVault' = bondVault
    <3>1. Bonds!IsEligible(bondVault', x)
      BY <2>4, SeatFacts
    <3> QED
      BY <1>1, <3>1, SamePanel
  <2>5. CASE /\ cases.disputes[t].arbitrator \in Verifiers
             /\ Closes(t, cases.disputes[t].arbitrator, SlashAmount(cases, bondVault, t))
    BY <1>1, <2>3, <2>5, CloseKeepsPanel
  <2> QED
    BY <2>1, <2>4, <2>5 DEF LapsedBonds
<1> QED
  BY <1>2, <1>3

(* No step but the taking of a case empties the panel.                       *)
LEMMA NextKeepsPanel ==
    ASSUME Assumed, Inv, [Step]_vars, NEW x \in EligiblePanel
    PROVE  KeepsPanel
<1>1. ASSUME cases' = cases, bondVault' = bondVault
      PROVE  KeepsPanel
  BY <1>1, SeatFacts, SamePanel
<1>2. CASE UNCHANGED vars
  BY <1>1, <1>2 DEF vars
<1>3. CASE Step
  <2>1. ASSUME NEW y \in Verifiers, NEW n \in Nat, PostBond(y, n)
        PROVE  KeepsPanel
    BY <2>1, PostKeepsPanel
  <2>2. ASSUME NEW y \in Verifiers, NEW n \in Nat, VerifierWithdraws(y, n)
        PROVE  KeepsPanel
    BY <2>2, WithdrawKeepsPanel
  <2>3. ASSUME NEW y \in Verifiers, VerifierSchedules(y)
        PROVE  KeepsPanel
    BY <2>3, ScheduleKeepsPanel
  <2>4. ASSUME NEW y \in Verifiers, OwnerAdds(y)
        PROVE  KeepsPanel
    BY <2>4, AddKeepsPanel
  <2>5. ASSUME NEW y \in Verifiers, OwnerRemoves(y)
        PROVE  KeepsPanel
    BY <2>5, RemoveKeepsPanel
  <2>6. ASSUME NEW t \in Tasks, Opens(t) \/ Assigns(t)
        PROVE  KeepsPanel
    BY <2>6, TakeKeepsPanel
  <2>7. ASSUME NEW t \in Tasks, SomebodyBegins(t)
        PROVE  KeepsPanel
    <3>1. bondVault' = bondVault /\ Bonds!IsEligible(bondVault, x)
      BY <2>7, SeatFacts DEF SomebodyBegins
    <3> QED
      BY <2>7, <3>1, PanelKept, SamePanel
  <2>8. ASSUME NEW t \in Tasks, SomebodyRules(t) \/ CaseLapses(t)
        PROVE  KeepsPanel
    BY <2>8, EndKeepsPanel
  <2>9. CASE TreasuryPulls
    <3>1. /\ bondVault'.bonds = bondVault.bonds
          /\ bondVault'.reservedSlash = bondVault.reservedSlash
          /\ bondVault'.withdrawReadyAt = bondVault.withdrawReadyAt
      BY <2>9 DEF TreasuryPulls, Inv, BondsGood, Bonds!ClaimSlash
    <3>2. cases' = cases
      BY <2>9 DEF TreasuryPulls
    <3> QED
      BY <3>1, <3>2, SeatFacts, SameBooks, SamePanel
  <2>10. CASE Tick
    BY <1>1, <2>10 DEF Tick
  <2> QED
    BY <1>3, <2>1, <2>2, <2>3, <2>4, <2>5, <2>6, <2>7, <2>8, <2>9, <2>10, StepCases
<1> QED
  BY <1>2, <1>3

(* Every step leaves the panel an eligible member, or takes the last one on.    *)
LEMMA StepKeepsPanel ==
    ASSUME Assumed, Inv, [Step]_vars
    PROVE  KeepsPanel
<1>1. CASE EligiblePanel = {}
  BY <1>1 DEF KeepsPanel
<1>2. CASE EligiblePanel # {}
  BY <1>2, NextKeepsPanel
<1> QED
  BY <1>1, <1>2

(* Whoever the parties are.                                                   *)
LEMMA PanelNeverEmptied == []Inv /\ [][Step]_vars => PanelNotEmptiedByExit
<1>1. Inv /\ [Step]_vars => KeepsPanel
  BY AssumptionHolds, StepKeepsPanel
<1> QED
  BY <1>1, PTL DEF PanelNotEmptiedByExit, KeepsPanel

(* No withdrawal, removal or slash takes the last eligible arbitrator away:    *)
(* the exit guards suffice (ArbitrationModuleV2._panelExitStatus,             *)
(* removePanelMember), and a verifier slashed for one case can take the next. *)
THEOREM ArbitrationPanelStays == Spec => PanelNotEmptiedByExit
  BY PanelNeverEmptied, NextSteps, ArbitrationSound, PTL DEF Spec

-------------------------------------------------------------------------------
(* The total of the bonds.                                                    *)

(* The recorded total is the sum of the bonds.                                *)
Totalled(b) == b.totalBonded = SumFunction(b.bonds)

(* The verifiers are finitely many.                                           *)
LEMMA VerifiersFinite == Assumed => IsFiniteSet(Verifiers)
BY DEF Assumed

(* The total moves with the one bond that moves.                               *)
LEMMA TotalFollows ==
    ASSUME Assumed, NEW b, BondsGood(b), Totalled(b), NEW r, BondsGood(r), NEW x \in Verifiers,
           NEW d \in Int, r.bonds[x] = b.bonds[x] + d, r.totalBonded = b.totalBonded + d,
           \A y \in Verifiers \ {x} : r.bonds[y] = b.bonds[y]
    PROVE  Totalled(r)
<1>1. /\ b.bonds \in [Verifiers -> Nat] /\ r.bonds \in [Verifiers -> Nat]
      /\ \A y \in Verifiers : y # x => r.bonds[y] = b.bonds[y]
  BY DEF BondsGood
<1>2. /\ SumFunction(r.bonds) = SumFunction(b.bonds) - b.bonds[x] + r.bonds[x]
      /\ SumFunction(b.bonds) \in Nat
  BY <1>1, VerifiersFinite, TotalChange
<1>3. b.bonds[x] \in Nat /\ r.bonds[x] \in Nat
  BY <1>1
<1> QED BY <1>2, <1>3 DEF Totalled

(* A bond posted adds itself to the total.                                    *)
LEMMA BondTotal ==
    ASSUME Assumed, NEW b, BondsGood(b), Funded(b), Totalled(b), NEW x \in Verifiers, NEW n \in Nat
    PROVE  Totalled(Bonds!Bond(b, x, n))
<1> DEFINE r == Bonds!Bond(b, x, n)
<1>1. Moves(b, r, x, 0, 0, n)
  BY BondFacts
<1>2. r.totalBonded = b.totalBonded + n
  BY DEF BondsGood, Bonds!Bond
<1> HIDE DEF r
<1>3. Totalled(r)
  BY <1>1, <1>2, TotalFollows DEF Moves
<1> QED BY <1>3 DEF r

(* A withdrawal takes itself from the total.                                  *)
LEMMA WithdrawTotal ==
    ASSUME Assumed, NEW b, BondsGood(b), Funded(b), Totalled(b), NEW x \in Verifiers, NEW n \in Nat,
           n <= b.bonds[x], n <= b.totalBonded, n <= b.balance
    PROVE  Totalled(Bonds!WithdrawBond(b, x, n))
<1> DEFINE r == Bonds!WithdrawBond(b, x, n)
<1>1. Moves(b, r, x, 0, 0, -n)
  BY WithdrawFacts
<1>2. r.totalBonded = b.totalBonded + (-n)
  <2>1. r.totalBonded = b.totalBonded - n /\ b.totalBonded \in Nat
    BY DEF BondsGood, Bonds!WithdrawBond
  <2> QED BY <2>1
<1> HIDE DEF r
<1>3. Totalled(r)
  BY <1>1, <1>2, TotalFollows DEF Moves
<1> QED BY <1>3 DEF r

(* So does a slash.                                                           *)
LEMMA SlashTotal ==
    ASSUME Assumed, NEW b, BondsGood(b), Funded(b), Totalled(b), NEW x \in Verifiers, NEW n \in Nat,
           NEW refused, Bonds!CanSlashAndRelease(b, x, n)
    PROVE  Totalled(Bonds!SlashAndRelease(b, x, n, refused))
<1> DEFINE r == Bonds!SlashAndRelease(b, x, n, refused)
<1>1. Moves(b, r, x, -1, -MinimumBond, -n)
  BY SlashFacts, ConstantFacts
<1>2. r.totalBonded = b.totalBonded + (-n)
  <2>1. b.totalBonded \in Nat
    BY DEF BondsGood
  <2>2. r.totalBonded = b.totalBonded - n
    BY DEF BondsGood, Bonds!SlashAndRelease, Bonds!Release
  <2> QED BY <2>1, <2>2
<1> HIDE DEF r
<1>3. Totalled(r)
  BY <1>1, <1>2, TotalFollows DEF Moves
<1> QED BY <1>3 DEF r

(* What else happens to a bond vault leaves the bonds and their total alone.      *)
LEMMA SameTotal ==
    ASSUME Totalled(bondVault), bondVault'.bonds = bondVault.bonds,
           bondVault'.totalBonded = bondVault.totalBonded
    PROVE  Totalled(bondVault')
BY DEF Totalled

(* An assignment moves no bond.                                               *)
LEMMA AssignedTotal ==
    ASSUME NEW b, BondsGood(b), NEW a
    PROVE  Assigned(b, a).bonds = b.bonds /\ Assigned(b, a).totalBonded = b.totalBonded
BY DEF BondsGood, Assigned, Bonds!Assign

(* Every step keeps the total.                                                *)
LEMMA NextTotal ==
    ASSUME Assumed, Inv, Totalled(bondVault), [Step]_vars
    PROVE  Totalled(bondVault')
<1>1. BondsGood(bondVault) /\ Funded(bondVault)
  BY DEF Inv
<1>2. CASE UNCHANGED vars
  BY <1>2, SameTotal DEF vars
<1>3. CASE Step
  <2>1. ASSUME NEW y \in Verifiers, NEW n \in Nat, PostBond(y, n)
        PROVE  Totalled(bondVault')
    BY <1>1, <2>1, BondTotal DEF PostBond
  <2>2. ASSUME NEW y \in Verifiers, NEW n \in Nat, VerifierWithdraws(y, n)
        PROVE  Totalled(bondVault')
    BY <1>1, <2>2, WithdrawTotal DEF VerifierWithdraws, Bonds!CanWithdrawBond
  <2>3. ASSUME NEW y \in Verifiers, VerifierSchedules(y)
        PROVE  Totalled(bondVault')
    BY <1>1, <2>3, SameTotal DEF VerifierSchedules, BondsGood, Bonds!ScheduleWithdrawal
  <2>4. ASSUME NEW y \in Verifiers, OwnerAdds(y) \/ OwnerRemoves(y)
        PROVE  Totalled(bondVault')
    BY <2>4, SameTotal DEF OwnerAdds, OwnerRemoves
  <2>5. ASSUME NEW t \in Tasks, Opens(t) \/ Assigns(t)
        PROVE  Totalled(bondVault')
    <3>1. PICK a : bondVault' = Assigned(bondVault, a)
      BY <2>5 DEF Opens, Assigns, RegistryOpens, SomebodyAssigns
    <3> QED
      BY <1>1, <3>1, AssignedTotal, SameTotal
  <2>6. ASSUME NEW t \in Tasks, SomebodyBegins(t)
        PROVE  Totalled(bondVault')
    BY <2>6, SameTotal DEF SomebodyBegins
  <2>7. ASSUME NEW t \in Tasks, CaseLapses(t)
        PROVE  Totalled(bondVault')
    <3> DEFINE a == cases.disputes[t].arbitrator
               n == SlashAmount(cases, bondVault, t)
    <3>1. PICK refused :
             /\ CanTimeout(cases, bondVault, t, now)
             /\ bondVault' = TimedOut(cases, bondVault, t, refused)
      BY <2>7 DEF CaseLapses, SomebodyTimesOut
    <3>2. CASE a = Nobody
      BY <3>1, <3>2, SameTotal DEF TimedOut
    <3>3. CASE a # Nobody
      <4>1. a \in Verifiers
        BY <3>3 DEF Inv, CasesGood, DisputeGood
      <4>2. /\ bondVault' = Bonds!SlashAndRelease(bondVault, a, n, refused)
            /\ Bonds!CanSlashAndRelease(bondVault, a, n)
        BY <3>1, <3>3 DEF TimedOut, CanTimeout
      <4>3. n \in Nat
        BY <3>1, SlashBounds DEF CanTimeout
      <4> QED
        BY <1>1, <4>1, <4>2, <4>3, SlashTotal
    <3> QED BY <3>2, <3>3
  <2>8. ASSUME NEW t \in Tasks, SomebodyRules(t)
        PROVE  Totalled(bondVault')
    <3>1. PICK a : bondVault' = Bonds!Release(bondVault, a)
      BY <2>8 DEF SomebodyRules, ArbitratorRules
    <3> QED
      BY <1>1, <3>1, SameTotal DEF BondsGood, Bonds!Release
  <2>9. CASE TreasuryPulls
    BY <1>1, <2>9, SameTotal DEF TreasuryPulls, BondsGood, Bonds!ClaimSlash
  <2>10. CASE Tick
    BY <2>10, SameTotal DEF Tick
  <2> QED
    BY <1>3, <2>1, <2>2, <2>3, <2>4, <2>5, <2>6, <2>7, <2>8, <2>9, <2>10, StepCases
<1> QED
  BY <1>2, <1>3

(* The vault can return every bond and pay every slash it still owes the treasury, *)
(* whoever bonded, withdrew or was slashed (VerifierBondVaultV2.bond,            *)
(* withdrawBond, slashAndRelease, claimPayout).                               *)
THEOREM ArbitrationBondsSolvent == Spec => []BondsSolvent
<1>1. Init => Totalled(bondVault)
  <2> SUFFICES ASSUME Init PROVE Totalled(bondVault)
    OBVIOUS
  <2>1. /\ bondVault.bonds \in [Verifiers -> Nat] /\ bondVault.totalBonded = 0
        /\ \A x \in Verifiers : bondVault.bonds[x] = 0
    BY DEF Init, Bonds!EmptyBondVault
  <2> QED BY <2>1, AssumptionHolds, VerifiersFinite, TotalZero DEF Totalled
<1>2. Inv /\ Totalled(bondVault) /\ [Next]_vars => Totalled(bondVault)'
  BY NextSteps, AssumptionHolds, NextTotal
<1>3. Inv /\ Totalled(bondVault) => BondsSolvent
  BY DEF Inv, Funded, Totalled, BondsSolvent
<1> QED
  BY <1>1, <1>2, <1>3, ArbitrationSound, PTL DEF Spec

-------------------------------------------------------------------------------
(* The end of a case.                                                        *)

(* What one slash takes at most is within one assignment's reserve.             *)
LEMMA CapWithinReserve ==
    ASSUME Assumed
    PROVE  SlashCap <= MinimumBond
<1> DEFINE m == MinimumBond
           k == m * SlashCapBps
<1>1. m \in Nat /\ SlashCapBps \in 0..10000
  BY DEF Assumed
<1>2. k \in Nat /\ k <= m * 10000
  BY <1>1, Z3
<1> HIDE DEF m, k
<1>3. k \div 10000 <= m
  BY <1>1, <1>2, Z3
<1> QED BY <1>3 DEF SlashCap, k, m

(* After the cutoff of a case anybody can close it: the bond vault never refuses.  *)
LEMMA TimeoutAlways ==
    ASSUME Assumed, Inv, Totalled(bondVault), NEW t \in Tasks,
           Open(cases.disputes[t]), now > Cutoff(cases.disputes[t])
    PROVE  CanTimeout(cases, bondVault, t, now)
<1> DEFINE a == cases.disputes[t].arbitrator
           n == SlashAmount(cases, bondVault, t)
<1>1. CASE a = Nobody
  BY <1>1 DEF CanTimeout
<1>2. CASE a # Nobody
  <2>1. a \in Verifiers
    BY <1>2, Before
  <2>2. 1 <= bondVault.activeAssignments[a] /\ MinimumBond <= bondVault.reservedSlash[a]
    BY <2>1, HasReserve
  <2>3. /\ bondVault.bonds \in [Verifiers -> Nat] /\ bondVault.totalBonded \in Nat
        /\ bondVault.activeAssignments[a] \in Nat
    BY <2>1 DEF Inv, BondsGood
  <2>4. bondVault.bonds[a] <= bondVault.totalBonded
    BY <2>1, <2>3, VerifiersFinite, TotalMember DEF Totalled
  <2>5. n \in Nat /\ n <= MinimumBond
    <3>1. n \in Nat /\ n <= SlashCap
      BY SlashBounds
    <3>2. SlashCap \in Int /\ MinimumBond \in Nat
      <4>1. SlashCap \in Nat
        BY SlashCapType
      <4> QED BY <4>1, ConstantFacts
    <3> HIDE DEF n
    <3> QED BY <3>1, <3>2, CapWithinReserve
  <2>6. n <= bondVault.bonds[a]
    <3> DEFINE i == Monus((MinimumBond * SlashCapBps) \div 10000, cases.disputes[t].slashed)
    <3>1. n = IF i < bondVault.bonds[a] THEN i ELSE bondVault.bonds[a]
      BY <1>2 DEF SlashAmount
    <3>2. bondVault.bonds[a] \in Nat
      BY <2>1, <2>3
    <3> HIDE DEF i
    <3> QED BY <2>5, <3>1, <3>2
  <2> HIDE DEF n
  <2>7. Bonds!CanSlashAndRelease(bondVault, a, n)
    <3>1. bondVault.bonds[a] \in Nat
      BY <2>1, <2>3
    <3> QED BY <2>2, <2>3, <2>4, <2>5, <2>6, <3>1
            DEF Bonds!CanSlashAndRelease, Bonds!CanRelease, Bonds!AssignmentReserve
  <2> QED BY <2>7 DEF CanTimeout, n
<1> QED BY <1>1, <1>2

-------------------------------------------------------------------------------
(* What a caller of arbitration relies on, in one place.                     *)

(* What each call about case t does, and that it can be ended.                *)
CaseLaws(t) ==
    LET d == cases.disputes[t]
    IN  /\ SomebodyBegins(t) => Begun(t)
        /\ \A p, w : RegistryOpens(t, p, w) => Taken(t, p, w)
        /\ \A p, w : SomebodyAssigns(t, p, w) => Taken(t, p, w) /\ d.status = "EVIDENCE"
        /\ \A outcome, bps :
              ArbitratorRules(t, outcome, bps) => Ruled(t) /\ Records(t, outcome)
        /\ \A refused : SomebodyTimesOut(t, refused) => Lapsed(t)
        /\ Open(d) /\ Totalled(bondVault) /\ now > Cutoff(d)
              => CanTimeout(cases, bondVault, t, now)
        /\ Open(d) /\ d.arbitrator \in Verifiers
              => 1 <= bondVault.activeAssignments[d.arbitrator]

PanelLaws ==
    /\ Inv => \A t \in Tasks : CaseLaws(t)
    /\ Inv /\ [Step]_vars => Inv'
    /\ Inv /\ Totalled(bondVault) /\ [Step]_vars => Totalled(bondVault')

(* The invariant gives every case its laws.                                  *)
LEMMA CaseLawsHold ==
    ASSUME Assumed, Inv, NEW t \in Tasks
    PROVE  CaseLaws(t)
<1> DEFINE d == cases.disputes[t]
<1>1. SomebodyBegins(t) => Begun(t)
  BY BeginFacts
<1>2. \A p, w : RegistryOpens(t, p, w) => Taken(t, p, w)
  BY OpenTakes
<1>3. \A p, w : SomebodyAssigns(t, p, w) => Taken(t, p, w) /\ d.status = "EVIDENCE"
  BY AssignTakes
<1>4. ASSUME NEW outcome, NEW bps, ArbitratorRules(t, outcome, bps)
      PROVE  Ruled(t) /\ Records(t, outcome)
  <2>1. SomebodyRules(t)
    BY <1>4 DEF SomebodyRules
  <2> QED
    BY <1>4, <2>1, RuleFacts, RulingRecords
<1>5. ASSUME NEW refused, SomebodyTimesOut(t, refused)
      PROVE  Lapsed(t)
  <2>1. CaseLapses(t)
    BY <1>5 DEF CaseLapses
  <2> QED
    BY <2>1, TimeoutFacts
<1>6. Open(d) /\ Totalled(bondVault) /\ now > Cutoff(d)
         => CanTimeout(cases, bondVault, t, now)
  BY TimeoutAlways
<1>7. Open(d) /\ d.arbitrator \in Verifiers
         => 1 <= bondVault.activeAssignments[d.arbitrator]
  BY HasReserve
<1> HIDE DEF d
<1> QED
  BY <1>1, <1>2, <1>3, <1>4, <1>5, <1>6, <1>7 DEF CaseLaws, d

(* The laws, for any panel, bonds and windows.                               *)
LEMMA PanelLawsHold == PanelLaws
<1>1. ASSUME Inv, NEW t \in Tasks
      PROVE  CaseLaws(t)
  BY <1>1, AssumptionHolds, CaseLawsHold
<1>2. Inv /\ [Step]_vars => Inv'
  BY AssumptionHolds, InvStep
<1>3. Inv /\ Totalled(bondVault) /\ [Step]_vars => Totalled(bondVault')
  BY AssumptionHolds, NextTotal
<1> QED
  BY <1>1, <1>2, <1>3 DEF PanelLaws
===============================================================================
