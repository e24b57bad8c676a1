------------------------- MODULE SandboxAllocation -------------------------
(***************************************************************************)
(* proportionalIntegerAllocation (internal/sandbox/joint_delivery.go): the *)
(* largest-remainder method that turns sampled auction wins into           *)
(* impressions and cohort reach into the reach of each ad.  The variables  *)
(* walk over its inputs, win by win.                                       *)
(***************************************************************************)
EXTENDS Integers, Sequences, SequencesExt, FiniteSets

CONSTANTS MaxTotal, MaxCount, Parties

PartiesAssumption == Parties \in Nat

VARIABLES total, counts

SumOf(s) == FoldLeft(LAMBDA x, y : x + y, 0, s)

\* Floors first; what they leave over goes, one each, to the largest
\* remainders, equal ones in their order.
ProportionalAllocation(sum, weights, denominator) ==
    LET n == Len(weights)
        share(i) == sum * weights[i]
        floor(i) == share(i) \div denominator
        rest(i) == share(i) % denominator
        rank(i) == Cardinality({j \in DOMAIN weights :
                                  rest(j) > rest(i) \/ (rest(j) = rest(i) /\ j < i)})
        extras == sum - SumOf([i \in DOMAIN weights |-> floor(i)])
    IN  IF sum <= 0 \/ denominator <= 0
        THEN [i \in DOMAIN weights |-> 0]
        ELSE [i \in DOMAIN weights |-> floor(i) + (extras + n - 1 - rank(i)) \div n]

Init == total = 0 /\ counts = [i \in 1..Parties |-> 0]
AddWin(i) == counts[i] < MaxCount /\ counts' = [counts EXCEPT ![i] = @ + 1] /\ UNCHANGED total
AddTotal == total < MaxTotal /\ total' = total + 1 /\ UNCHANGED counts
Next == AddTotal \/ \E i \in 1..Parties : AddWin(i)
Spec == Init /\ [][Next]_<<total, counts>>
-----------------------------------------------------------------------------
Won == SumOf(counts)
Shares == ProportionalAllocation(total, counts, Won)

\* Every opportunity goes to exactly one party, the external bidders among
\* them, and nobody's share is off by one or more.
NothingLostOrInvented ==
    Won > 0 =>
        /\ SumOf(Shares) = total
        /\ \A i \in DOMAIN counts : LET off == Shares[i] * Won - total * counts[i] IN
              off < Won /\ -off < Won

\* A part never outgrows what it is a part of: reach is at most impressions.
PartsWithinParts == total <= Won => \A i \in DOMAIN counts : Shares[i] <= counts[i]

\* Who won more gets no less, whatever the order of the candidates.
MoreWinsMore == \A i, j \in DOMAIN counts : counts[i] > counts[j] => Shares[i] >= Shares[j]
=============================================================================
