-------------------------------- MODULE KsRs --------------------------------
(***************************************************************************)
(* The KS+RS test matrix of the improved mode (KsRsMatrix.cpp) and what    *)
(* the verifier reads off it.  A column is a packet position of the group, *)
(* read as a polynomial over a prime field: its base-q digits are the      *)
(* coefficients.  A row is an evaluation point with a symbol, and holds    *)
(* the columns whose polynomial takes that value there.  The sender sends  *)
(* one tau for each row, a hash over the MACs of the row; the receiver     *)
(* takes a packet for good when some row it is in matches its tau.         *)
(*                                                                         *)
(* A hash is injective: it stands for the list it was computed from.       *)
(***************************************************************************)
EXTENDS Naturals, FiniteSets

CONSTANT MaxFieldSize  \* MAX_FIELD_SIZE, 10000 in the code

ASSUME FieldAssumption == MaxFieldSize \in Nat

MaxMessageLength == 64

IsPrime(n) ==
    /\ n > 1
    /\ n > 3 => n % 2 # 0
    /\ \A d \in 3 .. n : d % 2 = 1 /\ d <= n \div d => n % d # 0

(* nCapacity after so many turns of the loop of nMinExponent. *)
Capacity(q, exponent) ==
    LET capacity[k \in Nat] == IF k = 0 THEN 1 ELSE capacity[k - 1] * q
    IN  capacity[exponent]

(* Defect: the last digit is forgotten. *)
SufficesShort(size, q, k) ==
    Capacity(q, k + 1) >= size /\ (k = 1 \/ Capacity(q, k) < size)

(* The fewest base-q digits in which size positions can be told apart. *)
Suffices(size, q, k) == Capacity(q, k) >= size /\ Capacity(q, k - 1) < size

(* 0 when MaxMessageLength digits are too few. *)
MinExponent(size, q) ==
    IF \E k \in 1 .. MaxMessageLength : Suffices(size, q, k)
    THEN CHOOSE k \in 1 .. MaxMessageLength : Suffices(size, q, k) ELSE 0

(* A matrix with its parameters; rows are not stored. *)
Candidate(size, threshold, q) ==
    LET k == MinExponent(size, q)
    IN  [size |-> size, threshold |-> threshold, field |-> q, digits |-> k,
         points |-> k + 2 * threshold]

RowCount(m) == m.points * m.field

Candidates(size, threshold) ==
    {m \in {Candidate(size, threshold, q) :
              q \in {n \in 2 * threshold + 1 .. MaxFieldSize : IsPrime(n)}} :
        m.digits > 0 /\ m.points <= m.field}

(* The fewest rows; the smaller field of two that need the same number. *)
Matrix(size, threshold) ==
    LET all == Candidates(size, threshold)
    IN  CHOOSE m \in all : \A o \in all :
            \/ RowCount(m) < RowCount(o)
            \/ RowCount(m) = RowCount(o) /\ m.field <= o.field

(* The coefficients are split off one by one, the lowest first. *)
Remaining(m, column, j) ==
    LET remaining[k \in Nat] == IF k = 0 THEN column ELSE remaining[k - 1] \div m.field
    IN  remaining[j]

Coefficient(m, column, j) == Remaining(m, column, j) % m.field

(* nPowMod; the power 0 of 0 counts as 1. *)
Power(m, point, j) ==
    LET power[k \in Nat] == IF k = 0 THEN 1 ELSE (power[k - 1] * point) % m.field
    IN  power[j]

(* nSymbol after so many terms. *)
SymbolAfter(m, column, point, terms) ==
    LET symbol[k \in Nat] ==
            IF k = 0 THEN 0
            ELSE (symbol[k - 1] + Coefficient(m, column, k - 1) * Power(m, point, k - 1))
                 % m.field
    IN  symbol[terms]

Symbol(m, column, point) == SymbolAfter(m, column, point, m.digits)

Points(m) == 0 .. m.points - 1

Contains(m, row, column) == Symbol(m, column, row[1]) = row[2]
-----------------------------------------------------------------------------
(* Verification.  macs gives each slot of the group the MAC computed for   *)
(* the packet stored there, or Missing.  A genuine packet yields the MAC   *)
(* the sender aggregated, so a row whose tau arrived unaltered (it is not  *)
(* in forged) matches exactly when all packets of it are there and genuine.*)

Genuine == "genuine"
Missing == "none"

(* Defect: a slot without a packet counts as if it had none to compare. *)
DamagedAmongReceived(macs) ==
    {column \in DOMAIN macs : macs[column] \notin {Genuine, Missing}}
Damaged(macs) == {column \in DOMAIN macs : macs[column] # Genuine}

RowMatches(m, row, damaged, forged) ==
    row \notin forged /\ \A column \in damaged : ~Contains(m, row, column)

(* resVerify: a position is good when one of its rows matches. *)
GoodPositions(m, macs, forged) ==
    LET damaged == Damaged(macs)
    IN  {column \in DOMAIN macs : \E point \in Points(m) :
            RowMatches(m, <<point, Symbol(m, column, point)>>, damaged, forged)}

Verification(m, macs, forged) ==
    LET good == GoodPositions(m, macs, forged)
    IN  [good |-> good, bad |-> DOMAIN macs \ good,
         exceeded |-> Cardinality(DOMAIN macs \ good) > m.threshold]
=============================================================================
