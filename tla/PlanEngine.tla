----------------------------- MODULE PlanEngine -----------------------------
(***************************************************************************)
(* The calendar engine, apps/api/src/study_plan_engine.py: it shares the   *)
(* capacity of a horizon among activities and among subjects by largest    *)
(* remainders, cuts each day into blocks and fills them one by one.  One   *)
(* step of this module is one pass of the inner loop of build_plan, or the *)
(* beginning or end of a day.                                              *)
(*                                                                         *)
(* Abstracted: subjects are numbered in the order of the syllabus, which   *)
(* is also the order of their identifiers; the weight of a subject is an   *)
(* input (_adaptive_weight returns at least 1); topics, the wording of an  *)
(* item and the warnings are left out.                                     *)
(***************************************************************************)
EXTENDS Integers, Sequences, FiniteSets, Functions

CONSTANTS
    Capacities, \* minutes available on each day of the horizon, 0 on a free day
    Preferred,  \* preferred lengths of a block
    Shares,     \* percentages of study, exercise, review and recovery
    Weights     \* adaptive weights of the subjects

ASSUME EngineAssumption ==
    /\ \A c \in Capacities : c \in Seq(Nat)
    /\ Preferred \subseteq Nat
    /\ \A s \in Shares : s \in [1 .. 4 -> Nat]
    /\ \A w \in Weights : w \in Seq(Nat \ {0})

VARIABLES
    plan,       \* the arguments of the call
    phase,      \* where the loops stand
    day,        \* the day being filled, an index of the calendar
    blocks,     \* the blocks of that day that are still to be filled
    activity,   \* minutes left per activity
    subject,    \* minutes left per subject
    items       \* the items placed so far

vars == <<plan, phase, day, blocks, activity, subject, items>>

MinBlock == 15
Activities == {"study", "review", "exercise"}
Order == [study |-> 1, review |-> 2, exercise |-> 3]
Position == [study |-> 1, exercise |-> 2, review |-> 3, recovery |-> 4]

Least(x, y) == IF x < y THEN x ELSE y
Total(seq) == SumFunction(seq)

-----------------------------------------------------------------------------
(***************************************************************************)
(* The pure functions.                                                     *)
(***************************************************************************)

\* Mutant: one of the missing units is not handed out.
LargestRemainderShort(total, weights) ==
    LET sum == Total(weights)
        w == IF sum > 0 THEN weights ELSE [i \in DOMAIN weights |-> 1]
        base == [i \in DOMAIN w |-> (total * w[i]) \div Total(w)]
        rest == [i \in DOMAIN w |-> (total * w[i]) % Total(w)]
        rank(i) == Cardinality({j \in DOMAIN w : rest[j] > rest[i] \/ (rest[j] = rest[i] /\ j < i)})
    IN  [i \in DOMAIN w |-> base[i] + (IF rank(i) + 1 < total - Total(base) THEN 1 ELSE 0)]

\* largest_remainder: the integer part of each share, and one more unit for
\* the largest remainders, the first ones in the list among equals.
LargestRemainder(total, weights) ==
    LET sum == Total(weights)
        w == IF sum > 0 THEN weights ELSE [i \in DOMAIN weights |-> 1]
        base == [i \in DOMAIN w |-> (total * w[i]) \div Total(w)]
        rest == [i \in DOMAIN w |-> (total * w[i]) % Total(w)]
        rank(i) == Cardinality({j \in DOMAIN w : rest[j] > rest[i] \/ (rest[j] = rest[i] /\ j < i)})
    IN  [i \in DOMAIN w |-> base[i] + (IF rank(i) < total - Total(base) THEN 1 ELSE 0)]

\* Mutant: a block is not shortened for the sake of the next one.
CutWhole(minutes, preferred) == Least(preferred, minutes)

\* The next block: shortened when it would leave less than a block behind.
Cut(minutes, preferred) ==
    LET block == Least(preferred, minutes)
        left == minutes - block
    IN  IF 0 < left /\ left < MinBlock THEN block - (MinBlock - left) ELSE block

\* _blocks: when no block of 15 minutes can be cut any more, the rest is
\* merged into the last block, or lost if there is none.
Blocks(minutes, preferred) ==
    LET Whole[left \in Nat] ==
            IF Cut(left, preferred) < MinBlock THEN <<>>
            ELSE <<Cut(left, preferred)>> \o Whole[left - Cut(left, preferred)]
        whole == Whole[minutes]
    IN  IF whole = <<>> THEN <<>>
        ELSE [whole EXCEPT ![Len(whole)] = @ + (minutes - Total(whole))]

\* What validate_availability, validate_shares and build_plan accept.
Accepted(p) ==
    /\ \A i \in DOMAIN p.capacity : p.capacity[i] = 0 \/ p.capacity[i] \in MinBlock .. 960
    /\ \E i \in DOMAIN p.capacity : p.capacity[i] > 0
    /\ Total(p.shares) = 100
    /\ p.shares[1] >= 20
    /\ p.shares[4] <= 20
    /\ p.preferred \in MinBlock .. 240
    /\ p.weights # <<>>

Plans == [capacity : Capacities, preferred : Preferred, shares : Shares, weights : Weights]

\* The days of the horizon that have any time at all.
Available(capacity) ==
    LET Until[n \in 0 .. Len(capacity)] ==
            IF n = 0 THEN <<>>
            ELSE IF capacity[n] > 0 THEN Append(Until[n - 1], capacity[n])
            ELSE Until[n - 1]
    IN  Until[Len(capacity)]

Calendar == Available(plan.capacity)

ActivityBudget(p) ==
    LET share == LargestRemainder(Total(p.capacity), p.shares)
    IN  [a \in Activities |-> share[Position[a]]]

\* What is left of the capacity without the margin of recovery.
Schedulable(p) == Total(p.capacity) - LargestRemainder(Total(p.capacity), p.shares)[4]

SubjectBudget(p) == LargestRemainder(Schedulable(p), p.weights)

-----------------------------------------------------------------------------
(***************************************************************************)
(* build_plan.                                                             *)
(***************************************************************************)
Init ==
    /\ plan \in {p \in Plans : Accepted(p)}
    /\ phase = "day"
    /\ day = 0
    /\ blocks = <<>>
    /\ activity = ActivityBudget(plan)
    /\ subject = SubjectBudget(plan)
    /\ items = <<>>

StartDay ==
    /\ phase = "day"
    /\ phase' = "block"
    /\ day' = day + 1
    /\ blocks' = Blocks(Calendar[day + 1], plan.preferred)
    /\ UNCHANGED <<plan, activity, subject, items>>

Exhausted == (\A a \in Activities : activity[a] = 0) \/ (\A s \in DOMAIN subject : subject[s] = 0)

\* The activity with most minutes left, in a fixed order among equals.
NextActivity ==
    CHOOSE a \in Activities : \A b \in Activities :
        activity[a] > activity[b] \/ (activity[a] = activity[b] /\ Order[a] <= Order[b])

\* Mutant: the first subject that has any time left.
NextSubjectFirst ==
    CHOOSE s \in DOMAIN subject :
        subject[s] > 0 /\ \A t \in DOMAIN subject : subject[t] > 0 => s <= t

\* The subject with most minutes left, the first one among equals.
NextSubject ==
    CHOOSE s \in DOMAIN subject : \A t \in DOMAIN subject :
        subject[s] > subject[t] \/ (subject[s] = subject[t] /\ s <= t)

\* Mutant: the length of the block does not matter.
PlannedOverBlock == Least(activity[NextActivity], subject[NextSubject])

Planned == Least(Head(blocks), Least(activity[NextActivity], subject[NextSubject]))

\* Mutant: the time is not taken from the subject.
PlaceItemForFree ==
    /\ phase = "block"
    /\ blocks # <<>>
    /\ ~Exhausted
    /\ Planned >= MinBlock
    /\ items' = Append(items, [day |-> day, activity |-> NextActivity,
                               subject |-> NextSubject, minutes |-> Planned])
    /\ activity' = [activity EXCEPT ![NextActivity] = @ - Planned]
    /\ blocks' = Tail(blocks)
    /\ UNCHANGED <<plan, phase, day, subject>>

PlaceItem ==
    /\ phase = "block"
    /\ blocks # <<>>
    /\ ~Exhausted
    /\ Planned >= MinBlock
    /\ items' = Append(items, [day |-> day, activity |-> NextActivity,
                               subject |-> NextSubject, minutes |-> Planned])
    /\ activity' = [activity EXCEPT ![NextActivity] = @ - Planned]
    /\ subject' = [subject EXCEPT ![NextSubject] = @ - Planned]
    /\ blocks' = Tail(blocks)
    /\ UNCHANGED <<plan, phase, day>>

\* Mutant: neither the activity nor the block is given up.
DropActivityRetry ==
    /\ phase = "block"
    /\ blocks # <<>>
    /\ ~Exhausted
    /\ Planned < MinBlock
    /\ UNCHANGED vars

\* Less than 15 minutes: the activity gets nothing more and the block is
\* left empty.
DropActivity ==
    /\ phase = "block"
    /\ blocks # <<>>
    /\ ~Exhausted
    /\ Planned < MinBlock
    /\ activity' = [activity EXCEPT ![NextActivity] = 0]
    /\ blocks' = Tail(blocks)
    /\ UNCHANGED <<plan, phase, day, subject, items>>

EndDay ==
    /\ phase = "block"
    /\ blocks = <<>> \/ Exhausted
    /\ phase' = IF day = Len(Calendar) THEN "done" ELSE "day"
    /\ blocks' = <<>>
    /\ UNCHANGED <<plan, day, activity, subject, items>>

Next == StartDay \/ PlaceItem \/ DropActivity \/ EndDay

Spec == Init /\ [][Next]_vars

\* The loops of one call run on.
FairSpec == Spec /\ WF_vars(Next)

-----------------------------------------------------------------------------
(***************************************************************************)
(* Properties.                                                             *)
(***************************************************************************)
Item == [day : Nat \ {0}, activity : Activities, subject : Nat \ {0}, minutes : Nat]

TypeOK ==
    /\ plan \in Plans
    /\ phase \in {"day", "block", "done"}
    /\ day \in 0 .. Len(Calendar)
    /\ blocks \in Seq(Nat)
    /\ activity \in [Activities -> Nat]
    /\ subject \in [DOMAIN plan.weights -> Nat]
    /\ items \in Seq(Item)

Minutes(ks) == SumFunctionOnSet([k \in DOMAIN items |-> items[k].minutes], ks)

\* The calendar of a day never asks for more time than the day has, and every
\* item lasts at least 15 minutes.
DayWithinCapacity ==
    /\ \A d \in 1 .. Len(Calendar) :
         Minutes({k \in DOMAIN items : items[k].day = d}) <= Calendar[d]
    /\ \A k \in DOMAIN items : items[k].minutes >= MinBlock

\* Whatever remainders are given up on the way, nothing is overdrawn (TypeOK),
\* no activity gets more than its share, each subject's items and remainder
\* make up its budget exactly, and the margin of recovery is never scheduled.
BudgetsConserved ==
    /\ TypeOK
    /\ \A a \in Activities :
         Minutes({k \in DOMAIN items : items[k].activity = a}) + activity[a]
            <= ActivityBudget(plan)[a]
    /\ \A s \in DOMAIN subject :
         Minutes({k \in DOMAIN items : items[k].subject = s}) + subject[s]
            = SubjectBudget(plan)[s]
    /\ Minutes(DOMAIN items) <= Schedulable(plan)

Fair(total, weights, share) ==
    /\ Total(share) = total
    /\ \A i \in DOMAIN weights :
         /\ share[i] * Total(weights) > (total * weights[i]) - Total(weights)
         /\ share[i] * Total(weights) < (total * weights[i]) + Total(weights)
    /\ \A i, j \in DOMAIN weights : weights[i] > weights[j] => share[i] >= share[j]

\* The rounding loses no minute, gives everyone less than one minute more or
\* less than the exact share, and never favours the smaller weight: what
\* largest_remainder has to be, stated without its algorithm.
AllotmentIsFair ==
    /\ Fair(Total(plan.capacity), plan.shares, LargestRemainder(Total(plan.capacity), plan.shares))
    /\ Fair(Schedulable(plan), plan.weights, SubjectBudget(plan))

\* A day is cut without a gap into blocks of at least 15 minutes.  Blocks of
\* half an hour or more are never longer than preferred; for shorter ones
\* either the last block may grow or, on a day shorter than two blocks of 15
\* minutes, the whole day is lost.
BlocksCoverDay ==
    \A d \in 1 .. Len(Calendar) :
        LET cut == Blocks(Calendar[d], plan.preferred) IN
        /\ \A i \in DOMAIN cut : cut[i] >= MinBlock
        /\ cut # <<>> => Total(cut) = Calendar[d]
        /\ plan.preferred >= 2 * MinBlock =>
             cut # <<>> /\ \A i \in DOMAIN cut : cut[i] <= plan.preferred
        /\ cut = <<>> => Calendar[d] < 2 * MinBlock

\* Giving an activity up wastes nothing: when it happens, either no activity
\* or no subject has 15 minutes left, so no other choice could fill the block.
NothingSchedulableLost ==
    [][\A a \in Activities :
         activity[a] > 0 /\ activity'[a] = 0 /\ items' = items =>
             \/ \A b \in Activities : activity[b] < MinBlock
             \/ \A s \in DOMAIN subject : subject[s] < MinBlock]_vars

\* Whatever is left over, the loops come to an end.
Terminates == <>(phase = "done")
=============================================================================
