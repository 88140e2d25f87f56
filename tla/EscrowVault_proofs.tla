-------------------------- MODULE EscrowVault_proofs --------------------------
(***************************************************************************)
(* Proofs about EscrowVaultV2, for every number of tasks and accounts, every  *)
(* amount, every ruling and every order of calls.                             *)
(*                                                                          *)
(* An operation changes one escrow and then pays at most twice.  Change and   *)
(* payment each have a lemma; a payment never touches an escrow, so what an   *)
(* operation does to the escrows is what its change does.                     *)
(***************************************************************************)
EXTENDS EscrowVault, SumTheorems, TLAPS

(* What holds of every escrow: it never pays out more than came in, it is     *)
(* empty when settled and before it is created, and it knows whom to pay.     *)
SoundEscrow(e) ==
    /\ e.released <= e.deposited
    /\ e.state = "SETTLED" => e.released = e.deposited
    /\ e.state = "NONE" => e.deposited = 0
    /\ e.state # "NONE" => IsParties(e)

RemainingOf(v) == [t \in Tasks |-> Remaining(v, t)]

(* The books: what is owed in all is what the escrows hold and what is owed.    *)
Exact(v) ==
    v.totalLiabilities = SumFunction(RemainingOf(v)) + SumFunction(v.pendingPayouts)

(* The invariant as a predicate of a vault state.  m is AZL that has left an  *)
(* escrow but has not been paid yet.                                          *)
Sound(v, m) ==
    /\ v \in EscrowVaultType
    /\ \A t \in Tasks : SoundEscrow(v.escrows[t])
    /\ v.balance >= v.totalLiabilities + m
    /\ Exact(v)

(* What the escrows hold and what is owed are natural, with natural sums.    *)
LEMMA RemainingType ==
    ASSUME NEW v \in EscrowVaultType, \A t \in Tasks : SoundEscrow(v.escrows[t])
    PROVE  /\ RemainingOf(v) \in [Tasks -> Nat]
           /\ v.pendingPayouts \in [Accounts -> Nat]
           /\ SumFunction(RemainingOf(v)) \in Nat /\ SumFunction(v.pendingPayouts) \in Nat
           /\ \A t \in Tasks : Remaining(v, t) <= SumFunction(RemainingOf(v))
           /\ \A a \in Accounts : v.pendingPayouts[a] <= SumFunction(v.pendingPayouts)
<1>0. IsFiniteSet(Tasks) /\ IsFiniteSet(Accounts)
  BY EscrowAssumption
<1>1. ASSUME NEW t \in Tasks PROVE Remaining(v, t) \in Nat
  <2>1. v.escrows[t].deposited \in Nat /\ v.escrows[t].released \in Nat
    BY DEF EscrowVaultType, Escrow
  <2>2. v.escrows[t].released <= v.escrows[t].deposited
    BY DEF SoundEscrow
  <2> QED BY <2>1, <2>2 DEF Remaining
<1>2. /\ RemainingOf(v) \in [Tasks -> Nat] /\ v.pendingPayouts \in [Accounts -> Nat]
      /\ \A t \in Tasks : RemainingOf(v)[t] = Remaining(v, t)
  BY <1>1 DEF RemainingOf, EscrowVaultType
<1>3. SumFunction(RemainingOf(v)) \in Nat /\ SumFunction(v.pendingPayouts) \in Nat
  BY <1>0, <1>2, TotalType
<1>4. /\ \A t \in Tasks : Remaining(v, t) <= SumFunction(RemainingOf(v))
      /\ \A a \in Accounts : v.pendingPayouts[a] <= SumFunction(v.pendingPayouts)
  BY <1>0, <1>2, TotalMember
<1> QED BY <1>2, <1>3, <1>4

(* What a change of one escrow leaves: escrow t is e, the vault holds b AZL    *)
(* and owes l.                                                                *)
With(v, t, e, b, l) ==
    [v EXCEPT !.escrows = [@ EXCEPT ![t] = e], !.balance = b, !.totalLiabilities = l]

(* Replacing one escrow keeps the vault sound if the balance and the         *)
(* liabilities follow.                                                       *)
LEMMA WithSound ==
    ASSUME NEW v, NEW k \in Nat, Sound(v, k), NEW t \in Tasks, NEW e \in Escrow,
           SoundEscrow(e), NEW b \in Nat, NEW l \in Nat, NEW m \in Nat, b >= l + m,
           l = v.totalLiabilities - Remaining(v, t) + (e.deposited - e.released)
    PROVE  Sound(With(v, t, e, b, l), m)
<1> DEFINE es == [v.escrows EXCEPT ![t] = e]
           r == With(v, t, e, b, l)
<1>1. v \in EscrowVaultType
  BY DEF Sound
<1>2. es \in [Tasks -> Escrow]
  BY <1>1 DEF EscrowVaultType
<1>3. \A s \in Tasks : SoundEscrow(es[s])
  BY <1>1 DEF EscrowVaultType, Sound
<1>4. r = [v EXCEPT !.escrows = es, !.balance = b, !.totalLiabilities = l]
  BY DEF With
<1> HIDE DEF es, r
<1>5. r \in EscrowVaultType
  BY <1>1, <1>2, <1>4 DEF EscrowVaultType
<1>6. r.escrows = es /\ r.balance = b /\ r.totalLiabilities = l
      /\ r.pendingPayouts = v.pendingPayouts
  BY <1>1, <1>4 DEF EscrowVaultType
<1>7. Exact(r)
  <2>1. /\ RemainingOf(v) \in [Tasks -> Nat] /\ RemainingOf(r) \in [Tasks -> Nat]
        /\ SumFunction(RemainingOf(v)) \in Nat /\ SumFunction(v.pendingPayouts) \in Nat
    <3>1. \A s \in Tasks : SoundEscrow(v.escrows[s]) /\ SoundEscrow(r.escrows[s])
      BY <1>3, <1>6 DEF Sound
    <3> QED BY <1>1, <1>5, <3>1, RemainingType
  <2>2. /\ RemainingOf(r)[t] = e.deposited - e.released
        /\ RemainingOf(v)[t] = Remaining(v, t)
        /\ \A s \in Tasks : s # t => RemainingOf(r)[s] = RemainingOf(v)[s]
    BY <1>1, <1>6 DEF RemainingOf, Remaining, es, EscrowVaultType
  <2>3. IsFiniteSet(Tasks)
    BY EscrowAssumption
  <2>4. SumFunction(RemainingOf(r)) =
           SumFunction(RemainingOf(v)) - RemainingOf(v)[t] + RemainingOf(r)[t]
    BY <2>1, <2>2, <2>3, TotalChange
  <2>5. v.totalLiabilities = SumFunction(RemainingOf(v)) + SumFunction(v.pendingPayouts)
    BY DEF Sound, Exact
  <2>6. RemainingOf(v)[t] \in Nat /\ RemainingOf(r)[t] \in Nat
    BY <2>1
  <2>7. l = v.totalLiabilities - RemainingOf(v)[t] + RemainingOf(r)[t]
    BY <2>2
  <2> QED BY <1>6, <2>1, <2>4, <2>5, <2>6, <2>7 DEF Exact
<1> QED BY <1>3, <1>5, <1>6, <1>7 DEF Sound, r

(* What a step may do to one escrow: nothing if it is settled, only settle it   *)
(* if it is frozen, and never change whom it pays.                            *)
OneMoves(e, f) ==
    /\ e.state = "SETTLED" => f = e
    /\ e.state = "FROZEN" => f = e \/ f.state = "SETTLED"
    /\ e.state # "NONE" => f.poster = e.poster /\ f.worker = e.worker

Moves(v, w) == \A t \in Tasks : OneMoves(v.escrows[t], w.escrows[t])

(* Replacing one escrow moves no other.                                      *)
LEMMA WithMoves ==
    ASSUME NEW v \in EscrowVaultType, NEW t \in Tasks, NEW e, NEW b, NEW l,
           OneMoves(v.escrows[t], e)
    PROVE  Moves(v, With(v, t, e, b, l))
<1> DEFINE es == [v.escrows EXCEPT ![t] = e]
<1>1. With(v, t, e, b, l).escrows = es
  BY DEF With, EscrowVaultType
<1>2. \A s \in Tasks : es[s] = IF s = t THEN e ELSE v.escrows[s]
  BY DEF EscrowVaultType
<1>3. \A s \in Tasks : OneMoves(v.escrows[s], v.escrows[s])
  BY DEF OneMoves
<1> HIDE DEF es
<1> QED BY <1>1, <1>2, <1>3 DEF Moves

(* A payment is made or owed in full, uses up the AZL set aside for it, and    *)
(* leaves the escrows alone.                                                  *)
LEMMA PaySound ==
    ASSUME NEW v, NEW to \in Accounts, NEW n \in Nat, NEW m \in Nat, NEW refusing,
           Sound(v, n + m)
    PROVE  /\ Sound(PayOrOwe(v, to, n, refusing), m)
           /\ PayOrOwe(v, to, n, refusing).escrows = v.escrows
<1> DEFINE owed == Plus(v.pendingPayouts, to, n)
           r == PayOrOwe(v, to, n, refusing)
<1>1. /\ v \in EscrowVaultType
      /\ \A t \in Tasks : SoundEscrow(v.escrows[t])
      /\ v.balance >= v.totalLiabilities + (n + m)
      /\ Exact(v)
  BY DEF Sound
<1>2. v.balance \in Nat /\ v.totalLiabilities \in Nat
  BY <1>1 DEF EscrowVaultType
<1>3. /\ owed \in [Accounts -> Nat] /\ owed[to] = v.pendingPayouts[to] + n
      /\ \A a \in Accounts : a # to => owed[a] = v.pendingPayouts[a]
  BY <1>1 DEF EscrowVaultType, Plus
<1>4. CASE n = 0
  <2>1. r = v
    BY <1>4 DEF PayOrOwe
  <2> QED BY <1>1, <1>2, <1>4, <2>1 DEF Sound
<1>5. CASE n # 0 /\ to \notin refusing /\ n <= v.balance
  <2>1. r = [v EXCEPT !.balance = @ - n]
    BY <1>5 DEF PayOrOwe
  <2>2. v.balance - n \in Nat
    BY <1>2, <1>5
  <2> HIDE DEF r
  <2>3. r \in EscrowVaultType
    BY <1>1, <2>1, <2>2 DEF EscrowVaultType
  <2>4. /\ r.escrows = v.escrows /\ r.balance = v.balance - n
        /\ r.totalLiabilities = v.totalLiabilities
        /\ r.pendingPayouts = v.pendingPayouts
    BY <1>1, <2>1 DEF EscrowVaultType
  <2>5. r.balance >= r.totalLiabilities + m
    BY <1>1, <1>2, <2>4
  <2>6. Exact(r)
    BY <1>1, <2>4 DEF Exact, RemainingOf, Remaining
  <2> QED BY <1>1, <2>3, <2>4, <2>5, <2>6 DEF Sound, r
<1>6. CASE n # 0 /\ ~(to \notin refusing /\ n <= v.balance)
  <2>1. r = [v EXCEPT !.pendingPayouts = owed, !.totalLiabilities = @ + n]
    BY <1>6 DEF PayOrOwe
  <2>2. v.totalLiabilities + n \in Nat
    BY <1>2
  <2> HIDE DEF r, owed
  <2>3. r \in EscrowVaultType
    BY <1>1, <1>3, <2>1, <2>2 DEF EscrowVaultType
  <2>4. /\ r.escrows = v.escrows /\ r.balance = v.balance
        /\ r.totalLiabilities = v.totalLiabilities + n /\ r.pendingPayouts = owed
    BY <1>1, <2>1 DEF EscrowVaultType
  <2>5. r.balance >= r.totalLiabilities + m
    BY <1>1, <1>2, <2>4
  <2>6. /\ SumFunction(owed) =
              SumFunction(v.pendingPayouts) - v.pendingPayouts[to] + owed[to]
        /\ SumFunction(v.pendingPayouts) \in Nat /\ v.pendingPayouts[to] \in Nat
    <3>1. v.pendingPayouts \in [Accounts -> Nat] /\ IsFiniteSet(Accounts)
      BY <1>1, EscrowAssumption DEF EscrowVaultType
    <3> QED BY <1>3, <3>1, TotalChange
  <2>7. SumFunction(RemainingOf(v)) \in Nat /\ RemainingOf(r) = RemainingOf(v)
    BY <1>1, <2>4, RemainingType DEF RemainingOf, Remaining
  <2>8. Exact(r)
    BY <1>1, <1>3, <2>4, <2>6, <2>7 DEF Exact
  <2> QED BY <1>1, <2>3, <2>4, <2>5, <2>8 DEF Sound, r
<1> QED BY <1>4, <1>5, <1>6

(* Two payments in a row, each made or owed.                                 *)
LEMMA PayTwiceSound ==
    ASSUME NEW v, NEW a \in Accounts, NEW b \in Accounts, NEW x \in Nat, NEW y \in Nat,
           NEW refusing, Sound(v, x + y)
    PROVE  LET r == PayOrOwe(PayOrOwe(v, a, x, refusing), b, y, refusing)
           IN  Sound(r, 0) /\ r.escrows = v.escrows
<1> DEFINE d == PayOrOwe(v, a, x, refusing)
<1>1. Sound(d, y) /\ d.escrows = v.escrows
  BY PaySound
<1> HIDE DEF d
<1>2. Sound(d, y + 0)
  <2>1. y + 0 = y
    OBVIOUS
  <2> QED BY <1>1, <2>1
<1>3. /\ Sound(PayOrOwe(d, b, y, refusing), 0)
      /\ PayOrOwe(d, b, y, refusing).escrows = d.escrows
  BY <1>2, PaySound
<1> QED BY <1>1, <1>3 DEF d

(* The worker's share of what is left is never more than what is left, so the  *)
(* poster's share is well defined.                                            *)
LEMMA ShareWithin ==
    ASSUME NEW r \in Nat, NEW bps \in 0..FullBps
    PROVE  (r * bps) \div FullBps \in 0..r
<1>1. r * bps \in Nat /\ r * bps <= r * FullBps
  BY DEF FullBps
<1> DEFINE p == r * bps
<1>2. p \in Nat /\ p <= 10000 * r
  BY <1>1 DEF FullBps
<1> HIDE DEF p
<1>3. p \div 10000 \in Nat /\ p \div 10000 <= r
  BY <1>2
<1> QED BY <1>3 DEF p, FullBps
-------------------------------------------------------------------------------
(* The operations.  e is the escrow of the task before, f after.               *)

(* create.                                                                   *)
LEMMA CreateSound ==
    ASSUME NEW v, Sound(v, 0), NEW t \in Tasks, NEW p \in Accounts, NEW w \in Accounts,
           CanCreateEscrow(v, t, p, w)
    PROVE  Sound(CreateEscrow(v, t, p, w), 0) /\ Moves(v, CreateEscrow(v, t, p, w))
<1> DEFINE f == [poster |-> p, worker |-> w, deposited |-> 0, released |-> 0,
                 state |-> "FUNDED"]
<1>1. v \in EscrowVaultType /\ v.balance >= v.totalLiabilities + 0
      /\ SoundEscrow(v.escrows[t])
  BY DEF Sound
<1>2. v.balance \in Nat /\ v.totalLiabilities \in Nat
  BY <1>1 DEF EscrowVaultType
<1>3. f \in Escrow
  BY DEF Escrow, EscrowState
<1>4. SoundEscrow(f)
  BY DEF SoundEscrow, IsParties
<1>5. OneMoves(v.escrows[t], f)
  BY DEF OneMoves, CanCreateEscrow
<1>6. CreateEscrow(v, t, p, w) = With(v, t, f, v.balance, v.totalLiabilities)
  BY <1>1 DEF CreateEscrow, With, EscrowVaultType
<1>7. v.totalLiabilities =
         v.totalLiabilities - Remaining(v, t) + (f.deposited - f.released)
  <2>1. v.escrows[t].deposited = 0 /\ v.escrows[t].released = 0
    BY <1>1 DEF SoundEscrow, CanCreateEscrow, EscrowVaultType, Escrow
  <2> QED BY <1>2, <2>1 DEF Remaining
<1> HIDE DEF f
<1> QED BY <1>7, <1>1, <1>2, <1>3, <1>4, <1>5, <1>6, WithSound, WithMoves

(* fund.                                                                     *)
LEMMA FundSound ==
    ASSUME NEW v, Sound(v, 0), NEW t \in Tasks, NEW n \in Nat, CanFundEscrow(v, t, n)
    PROVE  Sound(FundEscrow(v, t, n), 0) /\ Moves(v, FundEscrow(v, t, n))
<1> DEFINE e == v.escrows[t]
           f == [e EXCEPT !.deposited = @ + n]
<1>1. v \in EscrowVaultType /\ v.balance >= v.totalLiabilities + 0 /\ SoundEscrow(e)
  BY DEF Sound
<1>2. /\ v.balance + n \in Nat /\ v.totalLiabilities + n \in Nat
      /\ v.balance + n >= v.totalLiabilities + n + 0
  BY <1>1 DEF EscrowVaultType
<1>3. e \in Escrow /\ e.state = "FUNDED"
  BY <1>1 DEF EscrowVaultType, CanFundEscrow
<1>4. FundEscrow(v, t, n) = With(v, t, f, v.balance + n, v.totalLiabilities + n)
  BY <1>1 DEF FundEscrow, With, EscrowVaultType
<1> HIDE DEF e
<1>5. f \in Escrow
  BY <1>3 DEF Escrow
<1>6. SoundEscrow(f)
  BY <1>1, <1>3 DEF SoundEscrow, IsParties, Escrow
<1>7. OneMoves(e, f)
  BY <1>3 DEF OneMoves, Escrow
<1>8. v.totalLiabilities + n =
         v.totalLiabilities - Remaining(v, t) + (f.deposited - f.released)
  <2>1. /\ f.deposited = e.deposited + n /\ f.released = e.released
        /\ e.deposited \in Nat /\ e.released \in Nat /\ v.totalLiabilities \in Nat
    BY <1>1, <1>3 DEF Escrow, EscrowVaultType
  <2> QED BY <2>1 DEF Remaining, e
<1> HIDE DEF f
<1> QED BY <1>8, <1>1, <1>2, <1>4, <1>5, <1>6, <1>7, WithSound, WithMoves DEF e

(* Freezing and closing only change the state.                                *)
LEMMA FreezeSound ==
    ASSUME NEW v, Sound(v, 0), NEW t \in Tasks, CanFreeze(v, t)
    PROVE  Sound(Freeze(v, t), 0) /\ Moves(v, Freeze(v, t))
<1> DEFINE e == v.escrows[t]
           f == [e EXCEPT !.state = "FROZEN"]
<1>1. v \in EscrowVaultType /\ v.balance >= v.totalLiabilities + 0 /\ SoundEscrow(e)
  BY DEF Sound
<1>2. v.balance \in Nat /\ v.totalLiabilities \in Nat
  BY <1>1 DEF EscrowVaultType
<1>3. e \in Escrow /\ e.state = "FUNDED"
  BY <1>1 DEF EscrowVaultType, CanFreeze
<1>4. Freeze(v, t) = With(v, t, f, v.balance, v.totalLiabilities)
  BY <1>1 DEF Freeze, With, EscrowVaultType
<1> HIDE DEF e
<1>5. f \in Escrow
  BY <1>3 DEF Escrow, EscrowState
<1>6. SoundEscrow(f)
  BY <1>1, <1>3 DEF SoundEscrow, IsParties, Escrow
<1>7. OneMoves(e, f)
  BY <1>3 DEF OneMoves, Escrow
<1>8. v.totalLiabilities =
         v.totalLiabilities - Remaining(v, t) + (f.deposited - f.released)
  <2>1. /\ f.deposited = e.deposited /\ f.released = e.released
        /\ e.deposited \in Nat /\ e.released \in Nat
    BY <1>3 DEF Escrow
  <2> QED BY <1>2, <2>1 DEF Remaining, e
<1> HIDE DEF f
<1> QED BY <1>8, <1>1, <1>2, <1>4, <1>5, <1>6, <1>7, WithSound, WithMoves DEF e

(* close.                                                                    *)
LEMMA CloseSound ==
    ASSUME NEW v, Sound(v, 0), NEW t \in Tasks, CanCloseEscrow(v, t)
    PROVE  Sound(CloseEscrow(v, t), 0) /\ Moves(v, CloseEscrow(v, t))
<1> DEFINE e == v.escrows[t]
           f == [e EXCEPT !.state = "SETTLED"]
<1>1. v \in EscrowVaultType /\ v.balance >= v.totalLiabilities + 0 /\ SoundEscrow(e)
  BY DEF Sound
<1>2. v.balance \in Nat /\ v.totalLiabilities \in Nat
  BY <1>1 DEF EscrowVaultType
<1>3. e \in Escrow /\ e.state = "FUNDED" /\ e.released = e.deposited
  BY <1>1 DEF EscrowVaultType, CanCloseEscrow
<1>4. CloseEscrow(v, t) = With(v, t, f, v.balance, v.totalLiabilities)
  BY <1>1 DEF CloseEscrow, With, EscrowVaultType
<1> HIDE DEF e
<1>5. f \in Escrow
  BY <1>3 DEF Escrow, EscrowState
<1>6. SoundEscrow(f)
  BY <1>1, <1>3 DEF SoundEscrow, IsParties, Escrow
<1>7. OneMoves(e, f)
  BY <1>3 DEF OneMoves, Escrow
<1>8. v.totalLiabilities =
         v.totalLiabilities - Remaining(v, t) + (f.deposited - f.released)
  <2>1. /\ f.deposited = e.deposited /\ f.released = e.released
        /\ e.deposited \in Nat /\ e.released \in Nat
    BY <1>3 DEF Escrow
  <2> QED BY <1>2, <2>1 DEF Remaining, e
<1> HIDE DEF f
<1> QED BY <1>8, <1>1, <1>2, <1>4, <1>5, <1>6, <1>7, WithSound, WithMoves DEF e

(* release.                                                                  *)
LEMMA ReleaseSound ==
    ASSUME NEW v, Sound(v, 0), NEW t \in Tasks, NEW n \in Nat, NEW refusing,
           CanReleaseEscrow(v, t, n)
    PROVE  /\ Sound(ReleaseEscrow(v, t, n, refusing), 0)
           /\ Moves(v, ReleaseEscrow(v, t, n, refusing))
<1> DEFINE e == v.escrows[t]
           f == [e EXCEPT !.released = @ + n]
           c == With(v, t, f, v.balance, v.totalLiabilities - n)
<1>1. v \in EscrowVaultType /\ v.balance >= v.totalLiabilities + 0 /\ SoundEscrow(e)
  BY DEF Sound
<1>2. /\ v.balance \in Nat /\ v.totalLiabilities - n \in Nat
      /\ v.balance >= (v.totalLiabilities - n) + n
  BY <1>1 DEF EscrowVaultType, CanReleaseEscrow
<1>3. e \in Escrow /\ e.state = "FUNDED" /\ e.released + n <= e.deposited
  BY <1>1 DEF EscrowVaultType, CanReleaseEscrow
<1>4. ReleaseEscrow(v, t, n, refusing) = PayOrOwe(c, e.worker, n, refusing)
  BY <1>1 DEF ReleaseEscrow, With, EscrowVaultType
<1> HIDE DEF e
<1>5. f \in Escrow
  BY <1>3 DEF Escrow
<1>6. SoundEscrow(f)
  BY <1>1, <1>3 DEF SoundEscrow, IsParties, Escrow
<1>7. OneMoves(e, f)
  BY <1>3 DEF OneMoves, Escrow
<1>8. e.worker \in Accounts
  BY <1>1, <1>3 DEF SoundEscrow, IsParties
<1>r. v.totalLiabilities - n =
         v.totalLiabilities - Remaining(v, t) + (f.deposited - f.released)
  <2>1. /\ f.deposited = e.deposited /\ f.released = e.released + n
        /\ e.deposited \in Nat /\ e.released \in Nat /\ v.totalLiabilities \in Nat
    BY <1>1, <1>3 DEF Escrow, EscrowVaultType
  <2> QED BY <2>1 DEF Remaining, e
<1> HIDE DEF f
<1>9. Sound(c, n + 0)
  <2>1. v.balance >= (v.totalLiabilities - n) + (n + 0)
    BY <1>2
  <2> QED BY <1>2, <1>5, <1>6, <1>r, <2>1, WithSound
<1>10. Moves(v, c)
  BY <1>1, <1>7, WithMoves DEF e
<1> HIDE DEF c
<1> QED BY <1>4, <1>8, <1>9, <1>10, PaySound DEF Moves

(* Settling and refunding first empty the escrow: what was left of it is set   *)
(* aside to be paid.                                                          *)
LEMMA EmptiedSound ==
    ASSUME NEW v, Sound(v, 0), NEW t \in Tasks, v.escrows[t].state \in {"FUNDED", "FROZEN"},
           Remaining(v, t) <= v.totalLiabilities
    PROVE  /\ Remaining(v, t) \in Nat
           /\ Sound(Emptied(v, t), Remaining(v, t))
           /\ Moves(v, Emptied(v, t))
           /\ IsParties(v.escrows[t])
<1> DEFINE e == v.escrows[t]
           f == [e EXCEPT !.released = e.deposited, !.state = "SETTLED"]
           n == e.deposited - e.released
<1>1. v \in EscrowVaultType /\ v.balance >= v.totalLiabilities + 0 /\ SoundEscrow(e)
  BY DEF Sound
<1>2. v.balance \in Nat /\ v.totalLiabilities \in Nat
  BY <1>1 DEF EscrowVaultType
<1>3. e \in Escrow /\ e.state \in {"FUNDED", "FROZEN"}
  BY <1>1 DEF EscrowVaultType
<1>4. /\ Emptied(v, t) = With(v, t, f, v.balance, v.totalLiabilities - n)
      /\ Remaining(v, t) = n
  BY <1>1 DEF Emptied, With, EscrowVaultType, Remaining
<1>5. n <= v.totalLiabilities
  BY <1>4
<1> HIDE DEF e
<1>6. n \in Nat
  BY <1>1, <1>3 DEF SoundEscrow, Escrow
<1>7. f \in Escrow
  BY <1>3 DEF Escrow, EscrowState
<1>8. SoundEscrow(f) /\ IsParties(e)
  BY <1>1, <1>3 DEF SoundEscrow, IsParties, Escrow
<1>9. OneMoves(e, f)
  BY <1>3 DEF OneMoves, Escrow
<1>r. v.totalLiabilities - n =
         v.totalLiabilities - Remaining(v, t) + (f.deposited - f.released)
  <2>1. f.deposited = e.deposited /\ f.released = e.deposited /\ e.deposited \in Nat
    BY <1>3 DEF Escrow
  <2> HIDE DEF n
  <2> QED BY <1>2, <1>4, <1>6, <2>1
<1> HIDE DEF f, n
<1>10. v.totalLiabilities - n \in Nat /\ v.balance >= (v.totalLiabilities - n) + n
  BY <1>1, <1>2, <1>5, <1>6
<1>11. Sound(Emptied(v, t), n)
  BY <1>2, <1>4, <1>6, <1>7, <1>8, <1>10, <1>r, WithSound
<1>12. Moves(v, Emptied(v, t))
  BY <1>1, <1>4, <1>9, WithMoves DEF e
<1> QED BY <1>4, <1>6, <1>8, <1>11, <1>12 DEF e

(* A ruling pays the worker, then the poster, and together exactly what was    *)
(* left in the escrow.                                                        *)
LEMMA SettleSound ==
    ASSUME NEW v, Sound(v, 0), NEW t \in Tasks, NEW bps \in 0..FullBps, NEW refusing,
           CanSettleEscrow(v, t, bps)
    PROVE  /\ Sound(SettleEscrow(v, t, bps, refusing), 0)
           /\ Moves(v, SettleEscrow(v, t, bps, refusing))
<1> DEFINE e == v.escrows[t]
           n == Remaining(v, t)
           forWorker == WorkerAmount(v, t, bps)
           c == Emptied(v, t)
           r == SettleEscrow(v, t, bps, refusing)
<1>1. n \in Nat /\ Sound(c, n) /\ Moves(v, c) /\ e.worker \in Accounts /\ e.poster \in Accounts
  BY EmptiedSound DEF CanSettleEscrow, IsParties
<1>2. forWorker \in 0..n
  BY <1>1, ShareWithin DEF WorkerAmount
<1>3. r = PayOrOwe(PayOrOwe(c, e.worker, forWorker, refusing), e.poster, n - forWorker, refusing)
  BY DEF SettleEscrow
<1> HIDE DEF e, n, forWorker, c, r
<1>4. PICK x \in Nat, y \in Nat : x = forWorker /\ y = n - forWorker /\ n = x + y
  BY <1>1, <1>2
<1>5. Sound(c, x + y)
  BY <1>1, <1>4
<1>6. /\ r = PayOrOwe(PayOrOwe(c, e.worker, x, refusing), e.poster, y, refusing)
      /\ e.worker \in Accounts /\ e.poster \in Accounts
  BY <1>1, <1>3, <1>4
<1>7. Sound(r, 0) /\ r.escrows = c.escrows
  BY <1>5, <1>6, PayTwiceSound
<1> QED BY <1>1, <1>7 DEF Moves, r

(* refund.                                                                   *)
LEMMA RefundSound ==
    ASSUME NEW v, Sound(v, 0), NEW t \in Tasks, NEW refusing, CanRefundEscrow(v, t)
    PROVE  /\ Sound(RefundEscrow(v, t, refusing), 0)
           /\ Moves(v, RefundEscrow(v, t, refusing))
<1> DEFINE e == v.escrows[t]
           n == Remaining(v, t)
           c == Emptied(v, t)
<1>1. n \in Nat /\ Sound(c, n) /\ Moves(v, c) /\ e.poster \in Accounts
  BY EmptiedSound DEF CanRefundEscrow, IsParties
<1>2. RefundEscrow(v, t, refusing) = PayOrOwe(c, e.poster, n, refusing)
  BY DEF RefundEscrow
<1> HIDE DEF e, n, c
<1>3. Sound(c, n + 0)
  <2>1. n + 0 = n
    BY <1>1
  <2> QED BY <1>1, <2>1
<1> QED BY <1>1, <1>2, <1>3, PaySound DEF Moves

(* claimPayout.                                                              *)
LEMMA ClaimSound ==
    ASSUME NEW v, Sound(v, 0), NEW a \in Accounts, CanClaimEscrowPayout(v, a)
    PROVE  Sound(ClaimEscrowPayout(v, a), 0) /\ Moves(v, ClaimEscrowPayout(v, a))
<1> DEFINE n == v.pendingPayouts[a]
           owed == [v.pendingPayouts EXCEPT ![a] = 0]
           r == ClaimEscrowPayout(v, a)
<1>1. v \in EscrowVaultType /\ v.balance >= v.totalLiabilities + 0 /\ Exact(v)
  BY DEF Sound
<1>2. /\ v.balance \in Nat /\ v.totalLiabilities \in Nat /\ n \in Nat
      /\ owed \in [Accounts -> Nat] /\ owed[a] = 0
      /\ \A b \in Accounts : b # a => owed[b] = v.pendingPayouts[b]
      /\ v.pendingPayouts \in [Accounts -> Nat]
  BY <1>1 DEF EscrowVaultType
<1>3. n <= v.totalLiabilities /\ n <= v.balance
  BY DEF CanClaimEscrowPayout
<1>4. r = [v EXCEPT !.pendingPayouts = owed, !.totalLiabilities = @ - n, !.balance = @ - n]
  BY DEF ClaimEscrowPayout
<1>e. SumFunction(owed) = SumFunction(v.pendingPayouts) - n
      /\ SumFunction(v.pendingPayouts) \in Nat
  <2>1. IsFiniteSet(Accounts)
    BY EscrowAssumption
  <2> HIDE DEF owed
  <2>2. /\ SumFunction(owed) = SumFunction(v.pendingPayouts) - v.pendingPayouts[a] + owed[a]
        /\ SumFunction(v.pendingPayouts) \in Nat
    BY <1>2, <2>1, TotalChange
  <2> QED BY <1>2, <2>2
<1> HIDE DEF n, owed, r
<1>5. v.totalLiabilities - n \in Nat /\ v.balance - n \in Nat
  BY <1>2, <1>3
<1>6. r \in EscrowVaultType
  BY <1>1, <1>2, <1>4, <1>5 DEF EscrowVaultType
<1>7. /\ r.escrows = v.escrows /\ r.balance = v.balance - n
      /\ r.totalLiabilities = v.totalLiabilities - n /\ r.pendingPayouts = owed
  BY <1>1, <1>4 DEF EscrowVaultType
<1>8. r.balance >= r.totalLiabilities + 0
  BY <1>1, <1>2, <1>7
<1>x. Exact(r)
  <2>1. SumFunction(RemainingOf(v)) \in Nat /\ RemainingOf(r) = RemainingOf(v)
    BY <1>1, <1>7, RemainingType DEF RemainingOf, Remaining, Sound
  <2> QED BY <1>1, <1>2, <1>e, <1>7, <2>1 DEF Exact
<1>9. Sound(r, 0)
  BY <1>6, <1>7, <1>8, <1>x DEF Sound
<1>10. Moves(v, r)
  BY <1>7 DEF Moves, OneMoves
<1> QED BY <1>9, <1>10 DEF r

(* AZL may arrive at any time, and leave as long as the liabilities stay        *)
(* covered.                                                                   *)
LEMMA BalanceSound ==
    ASSUME NEW v, Sound(v, 0), NEW b \in Nat, b >= v.totalLiabilities
    PROVE  Sound([v EXCEPT !.balance = b], 0) /\ Moves(v, [v EXCEPT !.balance = b])
<1> DEFINE r == [v EXCEPT !.balance = b]
<1>1. v \in EscrowVaultType
  BY DEF Sound
<1>2. r \in EscrowVaultType
  BY <1>1 DEF EscrowVaultType
<1>3. /\ r.escrows = v.escrows /\ r.balance = b /\ r.totalLiabilities = v.totalLiabilities
      /\ v.totalLiabilities \in Nat /\ r.pendingPayouts = v.pendingPayouts
  BY <1>1 DEF EscrowVaultType
<1> HIDE DEF r
<1>4. r.balance >= r.totalLiabilities + 0
  BY <1>3
<1>x. Exact(r)
  BY <1>3 DEF Sound, Exact, RemainingOf, Remaining
<1>5. Sound(r, 0)
  BY <1>2, <1>3, <1>4, <1>x DEF Sound
<1>6. Moves(v, r)
  BY <1>3 DEF Moves, OneMoves
<1> QED BY <1>5, <1>6 DEF r

-------------------------------------------------------------------------------
(* The operations as their callers see them: a vault that is sound stays so,    *)
(* what the escrow's state allows is accepted, and one escrow changes.         *)

(* What a sound vault holds for a task it also owes.                           *)
LEMMA KeptFacts ==
    ASSUME NEW v, Sound(v, 0), NEW t \in Tasks
    PROVE  /\ v \in EscrowVaultType /\ v.escrows \in [Tasks -> Escrow]
           /\ SoundEscrow(v.escrows[t])
           /\ Remaining(v, t) \in Nat /\ v.totalLiabilities \in Nat
           /\ Remaining(v, t) <= v.totalLiabilities
<1>1. /\ v \in EscrowVaultType /\ Exact(v)
      /\ \A s \in Tasks : SoundEscrow(v.escrows[s])
  BY DEF Sound
<1>2. /\ v.escrows \in [Tasks -> Escrow] /\ v.totalLiabilities \in Nat
  BY <1>1 DEF EscrowVaultType
<1>3. /\ RemainingOf(v) \in [Tasks -> Nat]
      /\ SumFunction(RemainingOf(v)) \in Nat /\ SumFunction(v.pendingPayouts) \in Nat
      /\ Remaining(v, t) <= SumFunction(RemainingOf(v))
  BY <1>1, RemainingType
<1>4. Remaining(v, t) \in Nat
  <2>1. RemainingOf(v)[t] = Remaining(v, t)
    BY DEF RemainingOf
  <2> QED BY <1>3, <2>1
<1>5. Remaining(v, t) <= v.totalLiabilities
  <2>1. v.totalLiabilities = SumFunction(RemainingOf(v)) + SumFunction(v.pendingPayouts)
    BY <1>1 DEF Exact
  <2> QED BY <1>3, <1>4, <2>1
<1> QED BY <1>1, <1>2, <1>4, <1>5

(* A task without an escrow can get one.                                       *)
LEMMA OpenKept ==
    ASSUME NEW v, Sound(v, 0), NEW t \in Tasks, NEW p \in Accounts, NEW w \in Accounts,
           v.escrows[t].state = "NONE"
    PROVE  LET r == CreateEscrow(v, t, p, w)
           IN  /\ CanCreateEscrow(v, t, p, w) /\ Sound(r, 0)
               /\ r.escrows = [v.escrows EXCEPT ![t] =
                      [poster |-> p, worker |-> w, deposited |-> 0, released |-> 0,
                       state |-> "FUNDED"]]
<1>1. v \in EscrowVaultType
  BY DEF Sound
<1>2. CanCreateEscrow(v, t, p, w)
  BY DEF CanCreateEscrow
<1>3. CreateEscrow(v, t, p, w).escrows = [v.escrows EXCEPT ![t] =
          [poster |-> p, worker |-> w, deposited |-> 0, released |-> 0, state |-> "FUNDED"]]
  BY <1>1 DEF CreateEscrow, EscrowVaultType
<1> QED BY <1>2, <1>3, CreateSound

(* A payment in, in the open state.                                            *)
LEMMA FundKept ==
    ASSUME NEW v, Sound(v, 0), NEW t \in Tasks, NEW n \in Nat, n > 0,
           v.escrows[t].state = "FUNDED"
    PROVE  LET r == FundEscrow(v, t, n)
           IN  /\ CanFundEscrow(v, t, n) /\ Sound(r, 0)
               /\ r.escrows = [v.escrows EXCEPT ![t] =
                      [@ EXCEPT !.deposited = v.escrows[t].deposited + n]]
<1>1. v \in EscrowVaultType
  BY DEF Sound
<1>2. CanFundEscrow(v, t, n)
  BY DEF CanFundEscrow
<1>3. FundEscrow(v, t, n).escrows =
         [v.escrows EXCEPT ![t] = [@ EXCEPT !.deposited = v.escrows[t].deposited + n]]
  BY <1>1 DEF FundEscrow, EscrowVaultType
<1> QED BY <1>2, <1>3, FundSound

(* A dispute freezes an open escrow.                                           *)
LEMMA FreezeKept ==
    ASSUME NEW v, Sound(v, 0), NEW t \in Tasks, v.escrows[t].state = "FUNDED"
    PROVE  LET r == Freeze(v, t)
           IN  /\ CanFreeze(v, t) /\ Sound(r, 0)
               /\ r.escrows = [v.escrows EXCEPT ![t] = [@ EXCEPT !.state = "FROZEN"]]
<1>1. v \in EscrowVaultType
  BY DEF Sound
<1>2. CanFreeze(v, t)
  BY DEF CanFreeze
<1>3. Freeze(v, t).escrows = [v.escrows EXCEPT ![t] = [@ EXCEPT !.state = "FROZEN"]]
  BY <1>1 DEF Freeze, EscrowVaultType
<1> QED BY <1>2, <1>3, FreezeSound

(* An open escrow can be closed as soon as it is empty.                        *)
LEMMA CloseKept ==
    ASSUME NEW v, Sound(v, 0), NEW t \in Tasks, v.escrows[t].state = "FUNDED",
           v.escrows[t].released = v.escrows[t].deposited
    PROVE  LET r == CloseEscrow(v, t)
           IN  /\ CanCloseEscrow(v, t) /\ Sound(r, 0)
               /\ r.escrows = [v.escrows EXCEPT ![t] = [@ EXCEPT !.state = "SETTLED"]]
<1>1. v \in EscrowVaultType
  BY DEF Sound
<1>2. CanCloseEscrow(v, t)
  BY DEF CanCloseEscrow
<1>3. CloseEscrow(v, t).escrows = [v.escrows EXCEPT ![t] = [@ EXCEPT !.state = "SETTLED"]]
  BY <1>1 DEF CloseEscrow, EscrowVaultType
<1> QED BY <1>2, <1>3, CloseSound

(* Whatever is left of an open escrow can be released.                          *)
LEMMA ReleaseKept ==
    ASSUME NEW v, Sound(v, 0), NEW t \in Tasks, NEW n \in Nat, NEW refusing, n > 0,
           v.escrows[t].state = "FUNDED", n <= Remaining(v, t)
    PROVE  LET r == ReleaseEscrow(v, t, n, refusing)
           IN  /\ CanReleaseEscrow(v, t, n) /\ Sound(r, 0)
               /\ r.escrows = [v.escrows EXCEPT ![t] =
                      [@ EXCEPT !.released = v.escrows[t].released + n]]
<1> DEFINE c == [v EXCEPT !.escrows[t].released = @ + n, !.totalLiabilities = @ - n]
           r == ReleaseEscrow(v, t, n, refusing)
<1>1. /\ v \in EscrowVaultType /\ Remaining(v, t) \in Nat /\ v.totalLiabilities \in Nat
      /\ Remaining(v, t) <= v.totalLiabilities
  BY KeptFacts
<1>2. CanReleaseEscrow(v, t, n)
  <2>1. v.escrows[t].released \in Nat /\ v.escrows[t].deposited \in Nat
    BY <1>1 DEF EscrowVaultType, Escrow
  <2> QED BY <1>1, <2>1 DEF CanReleaseEscrow, Remaining
<1>3. Sound(r, 0)
  BY <1>2, ReleaseSound
<1>4. c.escrows = [v.escrows EXCEPT ![t] = [@ EXCEPT !.released = v.escrows[t].released + n]]
  BY <1>1 DEF EscrowVaultType
<1>5. r = PayOrOwe(c, v.escrows[t].worker, n, refusing)
  BY DEF ReleaseEscrow
<1> HIDE DEF r
<1>6. r.escrows = c.escrows
  BY <1>1, <1>5 DEF PayOrOwe, EscrowVaultType
<1> HIDE DEF c
<1> QED BY <1>2, <1>3, <1>4, <1>6 DEF r

(* A payment touches no escrow.                                                *)
LEMMA PayEscrows ==
    ASSUME NEW v \in EscrowVaultType, NEW to, NEW n, NEW refusing
    PROVE  PayOrOwe(v, to, n, refusing).escrows = v.escrows
BY DEF PayOrOwe, EscrowVaultType

(* What settling and refunding leave of the escrow.                            *)
LEMMA EmptiedEffect ==
    ASSUME NEW v \in EscrowVaultType, NEW t \in Tasks
    PROVE  Emptied(v, t).escrows = [v.escrows EXCEPT ![t] =
              [@ EXCEPT !.released = v.escrows[t].deposited, !.state = "SETTLED"]]
BY DEF Emptied, EscrowVaultType

(* Between v and r everything left in the escrow of t has been paid.           *)
Drained(v, r, t) ==
    r.escrows = [v.escrows EXCEPT ![t] =
                    [@ EXCEPT !.released = v.escrows[t].deposited, !.state = "SETTLED"]]

(* A frozen escrow can be settled with any share.                               *)
LEMMA SettleKept ==
    ASSUME NEW v, Sound(v, 0), NEW t \in Tasks, NEW bps \in 0..FullBps, NEW refusing,
           v.escrows[t].state = "FROZEN"
    PROVE  LET r == SettleEscrow(v, t, bps, refusing)
           IN  /\ CanSettle(v, t) /\ CanSettleEscrow(v, t, bps) /\ Sound(r, 0)
               /\ Drained(v, r, t)
<1> DEFINE e == v.escrows[t]
           n == Remaining(v, t)
           forWorker == WorkerAmount(v, t, bps)
           c == Emptied(v, t)
           r == SettleEscrow(v, t, bps, refusing)
<1>1. /\ v \in EscrowVaultType /\ n \in Nat /\ v.totalLiabilities \in Nat
      /\ SoundEscrow(v.escrows[t])
      /\ n <= v.totalLiabilities
  BY KeptFacts
<1>2. CanSettle(v, t) /\ CanSettleEscrow(v, t, bps)
  BY <1>1 DEF CanSettle, CanSettleEscrow, SoundEscrow, FullBps
<1>3. Sound(r, 0)
  BY <1>2, SettleSound
<1>4. /\ n \in Nat /\ Sound(c, n) /\ e.worker \in Accounts /\ e.poster \in Accounts
  BY <1>2, EmptiedSound DEF CanSettleEscrow, IsParties
<1>5. forWorker \in 0..n
  BY <1>1, ShareWithin DEF WorkerAmount
<1>6. r = PayOrOwe(PayOrOwe(c, e.worker, forWorker, refusing), e.poster, n - forWorker, refusing)
  BY DEF SettleEscrow
<1>7. c.escrows = [v.escrows EXCEPT ![t] =
                      [@ EXCEPT !.released = v.escrows[t].deposited, !.state = "SETTLED"]]
  BY <1>1, EmptiedEffect
<1> HIDE DEF e, n, forWorker, c, r
<1>8. PICK x \in Nat, y \in Nat : x = forWorker /\ y = n - forWorker /\ n = x + y
  BY <1>4, <1>5
<1>9. Sound(c, x + y)
  BY <1>4, <1>8
<1>10. r = PayOrOwe(PayOrOwe(c, e.worker, x, refusing), e.poster, y, refusing)
  BY <1>6, <1>8
<1>11. r.escrows = c.escrows
  BY <1>4, <1>9, <1>10, PayTwiceSound
<1> QED BY <1>2, <1>3, <1>7, <1>11 DEF r, Drained

(* An open escrow can be refunded.                                             *)
LEMMA RefundKept ==
    ASSUME NEW v, Sound(v, 0), NEW t \in Tasks, NEW refusing, v.escrows[t].state = "FUNDED"
    PROVE  LET r == RefundEscrow(v, t, refusing)
           IN  /\ CanRefundEscrow(v, t) /\ Sound(r, 0)
               /\ Drained(v, r, t)
<1> DEFINE c == Emptied(v, t)
           r == RefundEscrow(v, t, refusing)
<1>1. /\ v \in EscrowVaultType /\ SoundEscrow(v.escrows[t])
      /\ Remaining(v, t) <= v.totalLiabilities
  BY KeptFacts
<1>2. CanRefundEscrow(v, t)
  BY <1>1 DEF CanRefundEscrow, SoundEscrow
<1>3. Sound(r, 0)
  BY <1>2, RefundSound
<1>4. c \in EscrowVaultType
  BY <1>2, EmptiedSound DEF CanRefundEscrow, Sound
<1>5. c.escrows = [v.escrows EXCEPT ![t] =
                      [@ EXCEPT !.released = v.escrows[t].deposited, !.state = "SETTLED"]]
  BY <1>1, EmptiedEffect
<1>6. r = PayOrOwe(c, v.escrows[t].poster, Remaining(v, t), refusing)
  BY DEF RefundEscrow
<1> HIDE DEF c, r
<1>7. r.escrows = c.escrows
  BY <1>4, <1>6, PayEscrows
<1> QED BY <1>2, <1>3, <1>5, <1>7 DEF r, Drained

(* A claimed payout touches no escrow.                                         *)
LEMMA ClaimKept ==
    ASSUME NEW v, Sound(v, 0), NEW a \in Accounts, CanClaimEscrowPayout(v, a)
    PROVE  LET r == ClaimEscrowPayout(v, a)
           IN  Sound(r, 0) /\ r.escrows = v.escrows
<1>1. v \in EscrowVaultType
  BY DEF Sound
<1>2. ClaimEscrowPayout(v, a).escrows = v.escrows
  BY <1>1 DEF ClaimEscrowPayout, EscrowVaultType
<1> QED BY <1>2, ClaimSound

-------------------------------------------------------------------------------
(* The inductive invariant: the vault is sound between transactions.           *)
IInv == Sound(escrowVault, 0)

(* An empty vault is sound.                                                  *)
LEMMA EmptySound == Sound(EmptyEscrowVault, 0)
<1> DEFINE v == EmptyEscrowVault
<1>1. NoEscrow \in Escrow /\ SoundEscrow(NoEscrow)
  BY DEF NoEscrow, Escrow, EscrowState, SoundEscrow
<1>2. v \in EscrowVaultType /\ \A t \in Tasks : SoundEscrow(v.escrows[t])
  <2> HIDE DEF NoEscrow
  <2> QED BY <1>1 DEF EmptyEscrowVault, EscrowVaultType
<1>3. v.balance >= v.totalLiabilities + 0
  BY DEF EmptyEscrowVault
<1>4. Exact(v)
  <2>1. /\ v.totalLiabilities = 0
        /\ v.pendingPayouts = [a \in Accounts |-> 0]
        /\ RemainingOf(v) = [t \in Tasks |-> 0]
    BY DEF EmptyEscrowVault, RemainingOf, Remaining, NoEscrow
  <2>2. SumFunction([a \in Accounts |-> 0]) = 0 /\ SumFunction([t \in Tasks |-> 0]) = 0
    BY EscrowAssumption, TotalZero
  <2> QED BY <2>1, <2>2 DEF Exact
<1> HIDE DEF v
<1> QED BY <1>2, <1>3, <1>4 DEF Sound, v

(* So is the one a run starts with.                                          *)
LEMMA InitSound == Init => IInv
BY EmptySound DEF Init, IInv

(* A step keeps the vault sound and moves no escrow it may not move.           *)
LEMMA NextSound ==
    ASSUME IInv, [Next]_escrowVault
    PROVE  IInv' /\ Moves(escrowVault, escrowVault')
<1> DEFINE Good == IInv' /\ Moves(escrowVault, escrowVault')
<1>0. Sound(escrowVault, 0)
  BY DEF IInv
<1>n. 1..MaxEscrowBalance \subseteq Nat /\ WorkerShares \subseteq 0..FullBps
  BY EscrowAssumption
<1>t. /\ escrowVault.balance \in Nat /\ escrowVault.totalLiabilities \in Nat
      /\ escrowVault.balance >= escrowVault.totalLiabilities
  BY <1>0 DEF Sound, EscrowVaultType
<1>1. ASSUME NEW t \in Tasks, NEW p \in Accounts, NEW w \in Accounts, Create(t, p, w)
      PROVE  Good
  BY <1>0, <1>1, CreateSound DEF Create, IInv
<1>2. ASSUME NEW t \in Tasks, NEW n \in 1..MaxEscrowBalance, Fund(t, n)
      PROVE  Good
  <2>1. n \in Nat
    BY <1>n
  <2> QED BY <1>0, <1>2, <2>1, FundSound DEF Fund, IInv
<1>3. ASSUME NEW t \in Tasks, FreezeForDispute(t)
      PROVE  Good
  BY <1>0, <1>3, FreezeSound DEF FreezeForDispute, IInv
<1>4. ASSUME NEW t \in Tasks, Close(t)
      PROVE  Good
  BY <1>0, <1>4, CloseSound DEF Close, IInv
<1>5. ASSUME NEW t \in Tasks, NEW refusing \in SUBSET Accounts,
             NEW n \in 1..MaxEscrowBalance, Release(t, n, refusing)
      PROVE  Good
  <2>1. n \in Nat
    BY <1>n
  <2> QED BY <1>0, <1>5, <2>1, ReleaseSound DEF Release, IInv
<1>6. ASSUME NEW t \in Tasks, NEW refusing \in SUBSET Accounts,
             NEW bps \in WorkerShares, Settle(t, bps, refusing)
      PROVE  Good
  <2>1. bps \in 0..FullBps
    BY <1>n
  <2> QED BY <1>0, <1>6, <2>1, SettleSound DEF Settle, IInv
<1>7. ASSUME NEW t \in Tasks, NEW refusing \in SUBSET Accounts, Refund(t, refusing)
      PROVE  Good
  BY <1>0, <1>7, RefundSound DEF Refund, IInv
<1>8. ASSUME NEW a \in Accounts, Claim(a)
      PROVE  Good
  BY <1>0, <1>8, ClaimSound DEF Claim, IInv
<1>9. ASSUME NEW n \in 1..MaxEscrowBalance, Donate(n)
      PROVE  Good
  <2>1. n \in Nat
    BY <1>n
  <2>2. escrowVault.balance + n \in Nat /\ escrowVault.balance + n >= escrowVault.totalLiabilities
    BY <1>t, <2>1
  <2> QED BY <1>0, <1>9, <2>2, BalanceSound DEF Donate, IInv
<1>10. ASSUME NEW n \in 1..MaxEscrowBalance, Rescue(n)
       PROVE  Good
  <2>1. n \in Nat
    BY <1>n
  <2>2. /\ escrowVault.balance - n \in Nat
        /\ escrowVault.balance - n >= escrowVault.totalLiabilities
    BY <1>t, <1>10, <2>1 DEF Rescue, CanRescueEscrowSurplus
  <2> QED BY <1>0, <1>10, <2>2, BalanceSound DEF Rescue, IInv
<1>11. CASE UNCHANGED escrowVault
  BY <1>0, <1>11 DEF IInv, Moves, OneMoves
<1> QED
  BY <1>1, <1>2, <1>3, <1>4, <1>5, <1>6, <1>7, <1>8, <1>9, <1>10, <1>11 DEF Next

(* Every reachable escrow vault is sound.                                      *)
THEOREM EscrowSound == Spec => []IInv
<1>1. IInv /\ [Next]_escrowVault => IInv'
  BY NextSound
<1> QED BY <1>1, InitSound, PTL DEF Spec

(* Every field of the vault keeps its type: no subtraction of EscrowVaultV2,    *)
(* of a release, a ruling's two shares, a refund or a claim, goes below zero.  *)
THEOREM EscrowTypeCorrect == Spec => []TypeOK
<1>1. IInv => TypeOK
  BY DEF IInv, Sound, TypeOK
<1> QED BY <1>1, EscrowSound, PTL

(* The vault can pay every open escrow and every deferred payment at once,      *)
(* however many payments were refused before.                                 *)
THEOREM EscrowSolvency == Spec => []EscrowSolvent
<1>1. IInv => EscrowSolvent
  BY DEF IInv, Sound, EscrowSolvent, EscrowVaultType
<1> QED BY <1>1, EscrowSound, PTL

(* What the vault owes in all is, to the unit, what its escrows hold and what   *)
(* it deferred, after any rulings with their roundings, refusals and claims.   *)
THEOREM EscrowLiabilitiesExact == Spec => []LiabilitiesExact
<1>1. IInv => LiabilitiesExact
  BY DEF IInv, Sound, Exact, RemainingOf, LiabilitiesExact
<1> QED BY <1>1, EscrowSound, PTL

(* No escrow pays out more than came in, and a settled one has paid out all.    *)
THEOREM EscrowSettledIsEmpty == Spec => []SettledIsEmpty
<1>1. IInv => SettledIsEmpty
  BY DEF IInv, Sound, SoundEscrow, SettledIsEmpty
<1> QED BY <1>1, EscrowSound, PTL

(* A frozen escrow moves only to settled, a settled one never, and the parties  *)
(* of an escrow are fixed when it is created.                                 *)
THEOREM EscrowDisputedFundsStay == Spec => DisputedFundsStay
<1>1. IInv /\ [Next]_escrowVault =>
        [\A t \in Tasks :
            LET e == escrowVault.escrows[t]
                f == escrowVault'.escrows[t]
            IN  /\ e.state = "SETTLED" => f = e
                /\ e.state = "FROZEN" => f = e \/ f.state = "SETTLED"
                /\ e.state # "NONE" => f.poster = e.poster /\ f.worker = e.worker
        ]_escrowVault
  BY NextSound DEF Moves, OneMoves
<1> QED BY <1>1, EscrowSound, PTL DEF Spec, DisputedFundsStay
===============================================================================
