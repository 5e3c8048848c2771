------------------------- MODULE PhilosophersProofs -------------------------
(***************************************************************************)
(* For any number of philosophers, and of forks that fail: neighbours      *)
(* never eat at the same time, and there is no deadlock.                   *)
(***************************************************************************)
EXTENDS Philosophers, WellFoundedInduction, FiniteSetTheorems, TLAPS

-----------------------------------------------------------------------------
(* The utensils *)

LEMMA UtensilType ==
    ASSUME NEW n \in Phil
    PROVE  first(n) \in Phil /\ second(n) \in Phil /\ first(n) < second(n)
BY PhilosophersAssumption DEF Phil, first, second

\* Any set of utensils that is not empty has a highest one.
LEMMA HighestUtensil ==
    ASSUME NEW S \in SUBSET Phil, S # {}
    PROVE  \E m \in S : \A u \in S : u <= m
<1> DEFINE T == {N - 1 - u : u \in S}
           R == OpToRel(<, Nat)
<1>1. T \subseteq Nat /\ T # {}
  <2>1. \A u \in S : N - 1 - u \in Nat
    BY PhilosophersAssumption DEF Phil
  <2> QED
    BY <2>1
<1>2. IsWellFoundedOn(R, Nat)
  BY NatLessThanWellFounded
<1> HIDE DEF T, R
<1>3. PICK x \in T : \A y \in T : ~(<<y, x>> \in R)
  BY <1>1, <1>2, WFMin
<1>4. \A y \in T : x <= y
  <2> SUFFICES ASSUME NEW y \in T PROVE x <= y
    OBVIOUS
  <2>1. x \in Nat /\ y \in Nat
    BY <1>1
  <2>2. <<y, x>> \in R <=> y < x
    BY <2>1 DEF R, OpToRel
  <2> QED
    BY <1>3, <2>1, <2>2
<1>5. PICK m \in S : x = N - 1 - m
  BY <1>3 DEF T
<1>6. ASSUME NEW u \in S PROVE u <= m
  <2>1. N - 1 - u \in T
    BY DEF T
  <2> QED
    BY <1>4, <1>5, <2>1, PhilosophersAssumption DEF Phil
<1> QED
  BY <1>6

-----------------------------------------------------------------------------
(* Types *)

\* The utensils in philosopher n's hands.
Holds(n, u) ==
    \/ at[n] \in {"one", "eating"} /\ u = first(n)
    \/ at[n] \in {"eating", "half"} /\ u = second(n)

\* While the semaphores exist, a utensil's is 0 just when somebody, and then
\* only one philosopher, holds it.
UtensilInv ==
    ~removed => \A u \in Phil :
        /\ utensils[u] \in {0, 1}
        /\ utensils[u] = 0 => \E n \in Phil : Holds(n, u)
        /\ \A n \in Phil : Holds(n, u) => utensils[u] = 0
        /\ \A m, n \in Phil : Holds(m, u) /\ Holds(n, u) => m = n

\* main removes the semaphores after everybody who was forked has left: the pid
\* of each of them is waited for, whomever waitpid(-1) has reported.
MainInv ==
    /\ forked \in 0..N /\ waited \in 0..N
    /\ failed \subseteq Phil /\ reaped \subseteq Phil
    /\ \A n \in Phil : at[n] = "unborn" <=> n >= forked \/ n \in failed
    /\ \A n \in failed : n < forked
    /\ waited > 0 => forked = N
    /\ \A n \in Phil : n < waited => at[n] = "gone" \/ n \in failed
    /\ removed => waited = N

\* not_at_table counts those who have not checked in.
Away == {n \in Phil : at[n] \in {"unborn", "arriving"}}

TableInv ==
    /\ program = "barrier" => not_at_table = Cardinality(Away)
    /\ program = "barrier" /\ not_at_table # 0 => \A n \in Phil : at[n] \in {"unborn", "arriving", "seated"}
    /\ program # "barrier" => \A n \in Phil : at[n] \notin {"arriving", "seated"}

ShapeOK ==
    /\ program \in {"ipc", "barrier", "pthread"}
    /\ at \in [Phil -> {"unborn", "arriving", "seated", "thinking", "one", "eating", "half", "gone"}]
    /\ meals \in [Phil -> 0..Meals]
    /\ \A n \in Phil : at[n] # "gone" => meals[n] < Meals
    /\ utensils \in [Phil -> 0..1]
    /\ not_at_table \in 0..N
    /\ removed \in BOOLEAN

IInv == ShapeOK /\ UtensilInv /\ MainInv /\ TableInv

LEMMA InitInv == Init => IInv
<1> SUFFICES ASSUME Init PROVE IInv
  OBVIOUS
<1>1. ShapeOK
  <2>1. 0 \in 0..Meals /\ 0 < Meals /\ N \in 0..N /\ 1 \in 0..1
    BY PhilosophersAssumption
  <2>2. meals \in [Phil -> 0..Meals] /\ utensils \in [Phil -> 0..1]
    BY <2>1 DEF Init
  <2>3. program \in {"ipc", "barrier", "pthread"} /\ removed \in BOOLEAN
    BY DEF Init
  <2>4. at \in [Phil -> {"unborn", "arriving", "seated", "thinking", "one", "eating", "half", "gone"}]
    BY DEF Init
  <2> QED
    BY <2>1, <2>2, <2>3, <2>4 DEF Init, ShapeOK
<1>2. UtensilInv
  BY DEF Init, UtensilInv, Holds
<1>3. MainInv
  BY PhilosophersAssumption DEF Init, MainInv, Phil
<1>4. TableInv
  <2>1. Away = Phil
    BY DEF Init, Away
  <2>2. Cardinality(Phil) = N
    BY FS_Interval, PhilosophersAssumption DEF Phil
  <2> QED
    BY <2>1, <2>2 DEF Init, TableInv
<1> QED
  BY <1>1, <1>2, <1>3, <1>4 DEF IInv

-----------------------------------------------------------------------------
(* Every step preserves the invariant *)

\* Philosopher n goes on: the others stay where they are.
LEMMA StepMoves ==
    ASSUME ShapeOK, NEW n \in Phil, NEW from, NEW to, Step(n, from, to)
    PROVE  /\ at[n] = from /\ at'[n] = to /\ \A m \in Phil : m # n => at'[m] = at[m]
           /\ program' = program /\ removed' = removed /\ forked' = forked /\ failed' = failed
           /\ waited' = waited /\ reaped' = reaped
BY DEF Step, ShapeOK, main

\* n's hands change by the utensil u, which goes out of nobody's or into
\* nobody's hands.
LEMMA TakeKeeps ==
    ASSUME ShapeOK, UtensilInv, NEW n \in Phil, NEW u \in Phil, CanTake(u), Take(u),
           removed' = removed,
           \A m \in Phil : m # n => at'[m] = at[m],
           \A v \in Phil : Holds(n, v)' <=> Holds(n, v) \/ v = u
    PROVE  UtensilInv' /\ utensils' \in [Phil -> 0..1]
<1>1. CASE removed
  BY <1>1 DEF UtensilInv, Take, ShapeOK
<1>2. CASE ~removed
  <2>1. utensils[u] = 1 /\ utensils' = [utensils EXCEPT ![u] = 0]
    BY <1>2 DEF CanTake, Take, ShapeOK
  <2>2. \A m \in Phil : ~Holds(m, u)
    BY <1>2, <2>1 DEF UtensilInv
  <2>3. \A m \in Phil : m # n => \A v : Holds(m, v)' <=> Holds(m, v)
    BY DEF Holds
  <2>4. utensils'[u] = 0 /\ \A v \in Phil : v # u => utensils'[v] = utensils[v]
    BY <2>1 DEF ShapeOK
  <2>5. ASSUME NEW v \in Phil, v # u
        PROVE  \A m \in Phil : Holds(m, v)' <=> Holds(m, v)
    BY <2>3, <2>5
  <2>6. \A m \in Phil : Holds(m, u)' <=> m = n
    BY <2>2, <2>3
  <2> QED
    BY <1>2, <2>1, <2>4, <2>5, <2>6 DEF UtensilInv, ShapeOK
<1> QED
  BY <1>1, <1>2

LEMMA GiveKeeps ==
    ASSUME ShapeOK, UtensilInv, NEW n \in Phil, NEW u \in Phil, Holds(n, u), Give(u),
           removed' = removed,
           \A m \in Phil : m # n => at'[m] = at[m],
           \A v \in Phil : Holds(n, v)' <=> Holds(n, v) /\ v # u
    PROVE  UtensilInv' /\ utensils' \in [Phil -> 0..1]
<1>1. CASE removed
  BY <1>1 DEF UtensilInv, Give, ShapeOK
<1>2. CASE ~removed
  <2>1. utensils[u] = 0 /\ utensils' = [utensils EXCEPT ![u] = 1]
    BY <1>2 DEF UtensilInv, Give
  <2>2. \A m \in Phil : Holds(m, u) => m = n
    BY <1>2 DEF UtensilInv
  <2>3. \A m \in Phil : m # n => \A v : Holds(m, v)' <=> Holds(m, v)
    BY DEF Holds
  <2>4. utensils'[u] = 1 /\ \A v \in Phil : v # u => utensils'[v] = utensils[v]
    BY <2>1 DEF ShapeOK
  <2>5. ASSUME NEW v \in Phil, v # u
        PROVE  \A m \in Phil : Holds(m, v)' <=> Holds(m, v)
    BY <2>3, <2>5
  <2>6. \A m \in Phil : ~Holds(m, u)'
    BY <2>2, <2>3
  <2> QED
    BY <1>2, <2>1, <2>4, <2>5, <2>6 DEF UtensilInv, ShapeOK
<1> QED
  BY <1>1, <1>2

\* A step of a philosopher that has arrived keeps main's part of the invariant.
LEMMA MainKeeps ==
    ASSUME IInv, NEW n \in Phil, NEW from, NEW to, Step(n, from, to),
           from \notin {"unborn", "gone"}, to # "unborn"
    PROVE  MainInv'
BY StepMoves DEF IInv, MainInv

\* A step of a philosopher beyond the barrier keeps the table's part.
LEMMA TableKeeps ==
    ASSUME IInv, NEW n \in Phil, NEW from, NEW to, Step(n, from, to), not_at_table' = not_at_table,
           from \notin {"unborn", "arriving"}, to \notin {"unborn", "arriving", "seated"},
           from = "seated" => not_at_table = 0
    PROVE  TableInv'
<1>1. Away' = Away
  BY StepMoves DEF Away, IInv
<1> QED
  BY <1>1, StepMoves DEF IInv, TableInv

LEMMA ShapeKeeps ==
    ASSUME IInv, NEW n \in Phil, NEW from,
           NEW to \in {"unborn", "arriving", "seated", "thinking", "one", "eating", "half", "gone"},
           Step(n, from, to), from # "gone", meals' = meals, utensils' \in [Phil -> 0..1],
           not_at_table' \in 0..N
    PROVE  ShapeOK'
<1>1. at' \in [Phil -> {"unborn", "arriving", "seated", "thinking", "one", "eating", "half", "gone"}]
  BY DEF IInv, ShapeOK, Step
<1>2. \A m \in Phil : at'[m] # "gone" => meals'[m] < Meals
  BY StepMoves DEF IInv, ShapeOK
<1>3. program' \in {"ipc", "barrier", "pthread"} /\ removed' \in BOOLEAN
  BY StepMoves DEF IInv, ShapeOK
<1> QED
  BY <1>1, <1>2, <1>3 DEF IInv, ShapeOK

LEMMA ForkKeeps == ASSUME IInv, Fork PROVE IInv'
<1>1. PICK n \in Phil : n = forked
  BY PhilosophersAssumption DEF Fork, IInv, MainInv, Phil
<1>2. PICK to \in {"arriving", "thinking"} :
         to = (IF program = "barrier" THEN "arriving" ELSE "thinking") /\ at' = [at EXCEPT ![n] = to]
  BY <1>1 DEF Fork
<1>3. at[n] = "unborn" /\ at'[n] = to /\ \A m \in Phil : m # n => at'[m] = at[m]
  BY <1>1, <1>2, PhilosophersAssumption DEF IInv, ShapeOK, MainInv, Phil
<1>4. UNCHANGED <<program, meals, semaphores, failed, waited, reaped, removed>> /\ forked' = n + 1 /\ forked < N
  BY <1>1 DEF Fork
<1>5. ShapeOK'
  <2>1. at' \in [Phil -> {"unborn", "arriving", "seated", "thinking", "one", "eating", "half", "gone"}]
    BY <1>2 DEF IInv, ShapeOK
  <2>2. program' \in {"ipc", "barrier", "pthread"} /\ removed' \in BOOLEAN
    BY <1>4 DEF IInv, ShapeOK
  <2> QED
    BY <1>3, <1>4, <2>1, <2>2 DEF IInv, ShapeOK, semaphores
<1>6. UtensilInv'
  <2>1. \A m, u \in Phil : Holds(m, u)' <=> Holds(m, u)
    BY <1>2, <1>3 DEF Holds
  <2> QED
    BY <1>4, <2>1 DEF IInv, UtensilInv, semaphores
<1>7. MainInv'
  <2>1. waited = 0 /\ ~removed
    BY <1>4, PhilosophersAssumption DEF IInv, MainInv
  <2>2. forked' \in 0..N
    BY <1>1, <1>4, PhilosophersAssumption DEF Phil
  <2>3. \A m \in Phil : at'[m] = "unborn" <=> m >= forked' \/ m \in failed'
    <3>1. n \notin failed /\ failed' = failed /\ n \in Nat /\ Phil \subseteq Nat
      BY <1>1, <1>4, PhilosophersAssumption DEF IInv, MainInv, Phil
    <3>2. at'[n] # "unborn"
      BY <1>2, <1>3
    <3>3. ASSUME NEW m \in Phil, m # n
          PROVE  at'[m] = "unborn" <=> m >= forked' \/ m \in failed'
      <4>1. m >= n <=> m >= n + 1
        BY <3>1, <3>3
      <4> QED
        BY <1>1, <1>3, <1>4, <3>1, <3>3, <4>1 DEF IInv, MainInv
    <3> QED
      BY <1>4, <3>1, <3>2, <3>3
  <2>4. failed' \subseteq Phil /\ reaped' \subseteq Phil /\ \A m \in failed' : m < forked'
    BY <1>1, <1>4, PhilosophersAssumption DEF IInv, MainInv, Phil
  <2> QED
    BY <1>4, <2>1, <2>2, <2>3, <2>4, PhilosophersAssumption DEF MainInv, Phil
<1>8. TableInv'
  <2>1. CASE program = "barrier"
    <3>1. Away' = Away
      BY <1>2, <1>3, <2>1 DEF Away
    <3> QED
      BY <1>2, <1>3, <1>4, <2>1, <3>1 DEF IInv, TableInv, semaphores
  <2>2. CASE program # "barrier"
    BY <1>2, <1>3, <1>4, <2>2 DEF IInv, TableInv, semaphores
  <2> QED
    BY <2>1, <2>2
<1> QED
  BY <1>5, <1>6, <1>7, <1>8 DEF IInv

LEMMA ForkFailsKeeps == ASSUME IInv, ForkFails PROVE IInv'
<1>1. UNCHANGED <<program, at, meals, semaphores, waited, reaped, removed>>
  BY DEF ForkFails
<1>2. PICK n \in Phil : n = forked
  BY PhilosophersAssumption DEF ForkFails, IInv, MainInv, Phil
<1>3. forked' = n + 1 /\ failed' = failed \cup {n} /\ n < N /\ at[n] = "unborn"
  BY <1>2 DEF ForkFails, IInv, MainInv, Phil
<1>4. MainInv'
  <2>1. waited = 0 /\ ~removed
    BY <1>2, <1>3, PhilosophersAssumption DEF IInv, MainInv
  <2>2. forked' \in 0..N /\ failed' \subseteq Phil
    BY <1>2, <1>3, PhilosophersAssumption DEF IInv, MainInv, Phil
  <2>3. \A m \in Phil : at[m] = "unborn" <=> m >= forked' \/ m \in failed'
    BY <1>2, <1>3, PhilosophersAssumption DEF IInv, MainInv, Phil
  <2>4. \A m \in failed' : m < forked'
    BY <1>2, <1>3, PhilosophersAssumption DEF IInv, MainInv, Phil
  <2> QED
    BY <1>1, <2>1, <2>2, <2>3, <2>4, PhilosophersAssumption DEF IInv, MainInv, Phil
<1>5. UtensilInv' /\ TableInv'
  BY <1>1 DEF IInv, UtensilInv, Holds, TableInv, Away, semaphores
<1>6. ShapeOK'
  BY <1>1 DEF IInv, ShapeOK, semaphores
<1> QED
  BY <1>4, <1>5, <1>6 DEF IInv

LEMMA CreateFailsKeeps == ASSUME IInv, CreateFails PROVE IInv'
<1>1. /\ program' = program /\ program = "pthread" /\ UNCHANGED <<meals, semaphores, reaped>>
      /\ forked < N /\ forked' = N /\ waited' = N /\ removed' = TRUE
      /\ failed' = forked..(N - 1)
      /\ at' = [n \in Phil |-> IF n < forked THEN "gone" ELSE "unborn"]
  BY DEF CreateFails
<1>2. MainInv'
  BY <1>1, PhilosophersAssumption DEF IInv, MainInv, Phil
<1>3. UtensilInv' /\ TableInv'
  BY <1>1 DEF UtensilInv, TableInv
<1>4. ShapeOK'
  <2>1. at' \in [Phil -> {"unborn", "arriving", "seated", "thinking", "one", "eating", "half", "gone"}]
    BY <1>1
  <2>2. \A n \in Phil : at'[n] # "gone" => at[n] = "unborn"
    BY <1>1, PhilosophersAssumption DEF IInv, MainInv, Phil
  <2> QED
    BY <1>1, <2>1, <2>2 DEF IInv, ShapeOK, semaphores
<1> QED
  BY <1>2, <1>3, <1>4 DEF IInv

LEMMA CleanUpKeeps == ASSUME IInv, Wait \/ Remove PROVE IInv'
<1>1. program' = program /\ at' = at /\ meals' = meals /\ UNCHANGED semaphores
      /\ forked' = forked /\ failed' = failed
  BY DEF Wait, Remove
<1>2. MainInv'
  <2>1. CASE Wait
    <3>1. waited \in Phil /\ forked = N /\ waited' = waited + 1 /\ removed' = removed
      BY <2>1, PhilosophersAssumption DEF Wait, IInv, MainInv, Phil
    <3>2. at[waited] = "gone" \/ waited \in failed
      BY <2>1 DEF Wait
    <3>3. reaped' \subseteq Phil
      BY <2>1, <3>1 DEF Wait, IInv, MainInv
    <3>4. \A n \in Phil : n < waited' => n < waited \/ n = waited
      BY <3>1 DEF Phil
    <3>5. ~removed
      BY <2>1, PhilosophersAssumption DEF Wait, IInv, MainInv
    <3> QED
      BY <1>1, <3>1, <3>2, <3>3, <3>4, <3>5, PhilosophersAssumption DEF IInv, MainInv, Phil
  <2>2. CASE Remove
    BY <1>1, <2>2 DEF Remove, IInv, MainInv
  <2> QED
    BY <2>1, <2>2
<1>3. UtensilInv'
  <2>1. removed' = removed \/ removed' = TRUE
    BY DEF Wait, Remove
  <2> QED
    BY <1>1, <2>1 DEF IInv, UtensilInv, Holds, semaphores
<1>4. TableInv'
  BY <1>1 DEF IInv, TableInv, Away, semaphores
<1>5. ShapeOK'
  <2>1. removed' \in BOOLEAN /\ program' \in {"ipc", "barrier", "pthread"}
    BY <1>1 DEF Wait, Remove, IInv, ShapeOK
  <2> QED
    BY <1>1, <2>1 DEF IInv, ShapeOK, semaphores
<1> QED
  BY <1>2, <1>3, <1>4, <1>5 DEF IInv

LEMMA CheckInKeeps == ASSUME IInv, NEW n \in Phil, CheckIn(n) PROVE IInv'
<1>1. Step(n, "arriving", "seated") /\ meals' = meals /\ utensils' = utensils
      /\ not_at_table' = not_at_table - 1
  BY DEF CheckIn
<1>2. at[n] = "arriving" /\ at'[n] = "seated" /\ (\A m \in Phil : m # n => at'[m] = at[m])
      /\ program' = program /\ removed' = removed
  BY <1>1, StepMoves DEF IInv
<1>3. program = "barrier"
  BY <1>2 DEF IInv, TableInv
<1>4. Away' = Away \ {n} /\ n \in Away
  BY <1>2 DEF Away
<1>5. IsFiniteSet(Away)
  <2>1. IsFiniteSet(Phil) /\ Away \subseteq Phil
    BY FS_Interval, PhilosophersAssumption DEF Phil, Away
  <2> QED
    BY <2>1, FS_Subset
<1>6. Cardinality(Away') = Cardinality(Away) - 1
  BY <1>4, <1>5, FS_RemoveElement
<1>7. not_at_table = Cardinality(Away) /\ not_at_table \in 1..N
  <2>1. not_at_table = Cardinality(Away) /\ not_at_table \in 0..N
    BY <1>3 DEF IInv, TableInv, ShapeOK
  <2>2. Cardinality(Away) # 0
    BY <1>4, <1>5, FS_EmptySet
  <2> QED
    BY <2>1, <2>2, PhilosophersAssumption
<1>8. TableInv'
  BY <1>1, <1>2, <1>3, <1>6, <1>7 DEF IInv, TableInv
<1>9. ShapeOK'
  <2>1. not_at_table' \in 0..N /\ utensils' \in [Phil -> 0..1]
    BY <1>1, <1>7, PhilosophersAssumption DEF IInv, ShapeOK
  <2> QED
    BY <1>1, <2>1, ShapeKeeps
<1>10. UtensilInv'
  <2>1. \A m, u \in Phil : Holds(m, u)' <=> Holds(m, u)
    BY <1>2 DEF Holds
  <2> QED
    BY <1>1, <1>2, <2>1 DEF IInv, UtensilInv
<1>11. MainInv'
  BY <1>1, MainKeeps
<1> QED
  BY <1>8, <1>9, <1>10, <1>11 DEF IInv

LEMMA BeginDinnerKeeps == ASSUME IInv, NEW n \in Phil, BeginDinner(n) PROVE IInv'
<1>1. Step(n, "seated", "thinking") /\ meals' = meals /\ utensils' = utensils
      /\ not_at_table' = not_at_table /\ not_at_table = 0
  BY DEF BeginDinner, semaphores
<1>2. at[n] = "seated" /\ at'[n] = "thinking" /\ (\A m \in Phil : m # n => at'[m] = at[m])
      /\ removed' = removed
  BY <1>1, StepMoves DEF IInv
<1>3. TableInv' /\ MainInv'
  BY <1>1, TableKeeps, MainKeeps
<1>4. ShapeOK'
  BY <1>1, ShapeKeeps DEF IInv, ShapeOK
<1>5. UtensilInv'
  <2>1. \A m, u \in Phil : Holds(m, u)' <=> Holds(m, u)
    BY <1>2 DEF Holds
  <2> QED
    BY <1>1, <1>2, <2>1 DEF IInv, UtensilInv
<1> QED
  BY <1>3, <1>4, <1>5 DEF IInv

LEMMA TakeFirstKeeps == ASSUME IInv, NEW n \in Phil, TakeFirst(n) PROVE IInv'
<1>1. Step(n, "thinking", "one") /\ meals' = meals /\ not_at_table' = not_at_table
      /\ CanTake(first(n)) /\ Take(first(n))
  BY DEF TakeFirst
<1>2. at[n] = "thinking" /\ at'[n] = "one" /\ (\A m \in Phil : m # n => at'[m] = at[m])
      /\ removed' = removed
  BY <1>1, StepMoves DEF IInv
<1>3. TableInv' /\ MainInv'
  BY <1>1, TableKeeps, MainKeeps
<1>4. \A v \in Phil : Holds(n, v)' <=> Holds(n, v) \/ v = first(n)
  BY <1>2 DEF Holds
<1>5. UtensilInv' /\ utensils' \in [Phil -> 0..1]
  BY <1>1, <1>2, <1>4, UtensilType, TakeKeeps DEF IInv
<1>6. ShapeOK'
  BY <1>1, <1>5, ShapeKeeps DEF IInv, ShapeOK
<1> QED
  BY <1>3, <1>5, <1>6 DEF IInv

LEMMA TakeSecondKeeps == ASSUME IInv, NEW n \in Phil, TakeSecond(n) PROVE IInv'
<1>1. Step(n, "one", "eating") /\ meals' = meals /\ not_at_table' = not_at_table
      /\ CanTake(second(n)) /\ Take(second(n))
  BY DEF TakeSecond
<1>2. at[n] = "one" /\ at'[n] = "eating" /\ (\A m \in Phil : m # n => at'[m] = at[m])
      /\ removed' = removed
  BY <1>1, StepMoves DEF IInv
<1>3. TableInv' /\ MainInv'
  BY <1>1, TableKeeps, MainKeeps
<1>4. \A v \in Phil : Holds(n, v)' <=> Holds(n, v) \/ v = second(n)
  BY <1>2 DEF Holds
<1>5. UtensilInv' /\ utensils' \in [Phil -> 0..1]
  BY <1>1, <1>2, <1>4, UtensilType, TakeKeeps DEF IInv
<1>6. ShapeOK'
  BY <1>1, <1>5, ShapeKeeps DEF IInv, ShapeOK
<1> QED
  BY <1>3, <1>5, <1>6 DEF IInv

LEMMA GiveFirstKeeps == ASSUME IInv, NEW n \in Phil, GiveFirst(n) PROVE IInv'
<1>1. Step(n, "eating", "half") /\ meals' = meals /\ not_at_table' = not_at_table /\ Give(first(n))
  BY DEF GiveFirst
<1>2. at[n] = "eating" /\ at'[n] = "half" /\ (\A m \in Phil : m # n => at'[m] = at[m])
      /\ removed' = removed
  BY <1>1, StepMoves DEF IInv
<1>3. TableInv' /\ MainInv'
  BY <1>1, TableKeeps, MainKeeps
<1>4. first(n) \in Phil /\ second(n) \in Phil /\ first(n) # second(n)
  BY UtensilType, PhilosophersAssumption DEF Phil
<1>5. Holds(n, first(n)) /\ \A v \in Phil : Holds(n, v)' <=> Holds(n, v) /\ v # first(n)
  BY <1>2, <1>4 DEF Holds
<1>6. UtensilInv' /\ utensils' \in [Phil -> 0..1]
  BY <1>1, <1>2, <1>4, <1>5, GiveKeeps DEF IInv
<1>7. ShapeOK'
  BY <1>1, <1>6, ShapeKeeps DEF IInv, ShapeOK
<1> QED
  BY <1>3, <1>6, <1>7 DEF IInv

LEMMA GiveSecondKeeps == ASSUME IInv, NEW n \in Phil, GiveSecond(n) PROVE IInv'
<1>1. PICK to \in {"thinking", "gone"} :
         /\ to = (IF meals[n] + 1 < Meals THEN "thinking" ELSE "gone")
         /\ Step(n, "half", to)
  BY DEF GiveSecond
<1>2. not_at_table' = not_at_table /\ Give(second(n)) /\ meals' = [meals EXCEPT ![n] = @ + 1]
  BY DEF GiveSecond
<1>3. at[n] = "half" /\ at'[n] = to /\ (\A m \in Phil : m # n => at'[m] = at[m])
      /\ removed' = removed /\ program' = program
  BY <1>1, StepMoves DEF IInv
<1>4. TableInv' /\ MainInv'
  BY <1>1, <1>2, TableKeeps, MainKeeps
<1>5. second(n) \in Phil /\ first(n) # second(n)
  BY UtensilType, PhilosophersAssumption DEF Phil
<1>6. Holds(n, second(n)) /\ \A v \in Phil : Holds(n, v)' <=> Holds(n, v) /\ v # second(n)
  BY <1>3, <1>5 DEF Holds
<1>7. UtensilInv' /\ utensils' \in [Phil -> 0..1]
  BY <1>2, <1>3, <1>5, <1>6, GiveKeeps DEF IInv
<1>8. ShapeOK'
  <2>1. meals[n] \in 0..Meals /\ meals[n] < Meals
    BY <1>3 DEF IInv, ShapeOK
  <2>2. meals' \in [Phil -> 0..Meals] /\ meals'[n] = meals[n] + 1
        /\ \A m \in Phil : m # n => meals'[m] = meals[m]
    BY <1>2, <2>1, PhilosophersAssumption DEF IInv, ShapeOK
  <2>3. \A m \in Phil : at'[m] # "gone" => meals'[m] < Meals
    BY <1>1, <1>3, <2>2 DEF IInv, ShapeOK
  <2>4. at' \in [Phil -> {"unborn", "arriving", "seated", "thinking", "one", "eating", "half", "gone"}]
    BY <1>1 DEF Step, IInv, ShapeOK
  <2>5. program' \in {"ipc", "barrier", "pthread"} /\ removed' \in BOOLEAN
    BY <1>3 DEF IInv, ShapeOK
  <2> QED
    BY <1>2, <1>7, <2>2, <2>3, <2>4, <2>5 DEF IInv, ShapeOK
<1> QED
  BY <1>4, <1>7, <1>8 DEF IInv

LEMMA NextInv == IInv /\ [Next]_vars => IInv'
<1> SUFFICES ASSUME IInv, [Next]_vars PROVE IInv'
  OBVIOUS
<1>1. CASE UNCHANGED vars
  <2>1. UtensilInv'
    BY <1>1 DEF IInv, UtensilInv, Holds, vars, semaphores, main
  <2>2. MainInv' /\ TableInv'
    BY <1>1 DEF IInv, MainInv, TableInv, Away, vars, semaphores, main
  <2>3. program' \in {"ipc", "barrier", "pthread"} /\ removed' \in BOOLEAN
    BY <1>1 DEF IInv, ShapeOK, vars, main
  <2> QED
    BY <1>1, <2>1, <2>2, <2>3 DEF IInv, ShapeOK, vars, semaphores, main
<1> QED
  BY <1>1, ForkKeeps, ForkFailsKeeps, CreateFailsKeeps, CleanUpKeeps, CheckInKeeps, BeginDinnerKeeps, TakeFirstKeeps, TakeSecondKeeps,
     GiveFirstKeeps, GiveSecondKeeps DEF Next, Main, philosopher

LEMMA Invariance == Spec => []IInv
BY InitInv, NextInv, PTL DEF Spec

-----------------------------------------------------------------------------
(* The theorems *)

\* The types: in particular no semaphore of a utensil ever exceeds 1.
THEOREM TypeCorrect == Spec => []TypeOK
<1>1. IInv => TypeOK
  <2> SUFFICES ASSUME IInv PROVE TypeOK
    OBVIOUS
  <2>1. program \in {"ipc", "barrier", "pthread"} /\ removed \in BOOLEAN
    BY DEF IInv, ShapeOK
  <2> QED
    BY <2>1 DEF IInv, ShapeOK, MainInv, TypeOK
<1> QED
  BY <1>1, Invariance, PTL

\* No two philosophers who share a utensil eat at the same time, whatever the
\* number of philosophers and meals, and though the semaphores are removed in
\* the end.
THEOREM NeighboursExclude == Spec => []Exclusion
<1>1. IInv => Exclusion
  <2> SUFFICES ASSUME IInv, NEW m \in Phil, NEW n \in Phil, m # n, Eating(m), Eating(n),
                      {first(m), second(m)} \cap {first(n), second(n)} # {}
               PROVE  FALSE
    BY DEF Exclusion
  <2>1. ~removed
    BY PhilosophersAssumption DEF IInv, MainInv, Eating, Phil
  <2>2. PICK u \in Phil : u \in {first(m), second(m)} /\ u \in {first(n), second(n)}
    BY UtensilType
  <2>3. Holds(m, u) /\ Holds(n, u)
    BY <2>2 DEF Holds, Eating
  <2> QED
    BY <2>1, <2>2, <2>3 DEF IInv, UtensilInv
<1> QED
  BY <1>1, Invariance, PTL

\* With the barrier the first utensil is taken after the last arrival.
THEOREM DinnerIsCommon == Spec => []DinnerStartsTogether
<1>1. IInv => DinnerStartsTogether
  <2> SUFFICES ASSUME IInv PROVE DinnerStartsTogether
    OBVIOUS
  <2>0. \A n \in failed : n \in Phil /\ at[n] = "unborn"
    BY DEF IInv, MainInv
  <2> SUFFICES ASSUME program = "barrier",
                      NEW m \in Phil, at[m] \in {"thinking", "one", "eating", "half", "gone"},
                      NEW n \in Phil, at[n] \in {"unborn", "arriving"}
               PROVE  FALSE
    BY <2>0 DEF DinnerStartsTogether
  <2>1. not_at_table = 0 /\ Cardinality(Away) = 0
    BY DEF IInv, TableInv
  <2>2. IsFiniteSet(Phil) /\ Away \subseteq Phil
    BY FS_Interval, PhilosophersAssumption DEF Phil, Away
  <2>3. Away = {}
    BY <2>1, <2>2, FS_Subset, FS_EmptySet
  <2> QED
    BY <2>3 DEF Away
<1> QED
  BY <1>1, Invariance, PTL

\* There is no deadlock.  Of the utensils that are taken look at the highest:
\* whoever holds it waits for no other, because the second utensil to be taken
\* is always the higher one.
THEOREM NoDeadlock == Spec => []SomebodyCanGoOn
<1>1. IInv => SomebodyCanGoOn
  <2> SUFFICES ASSUME IInv, forked = N, program = "barrier" => failed = {},
                      NEW n \in Phil \ failed, at[n] # "gone",
                      \A m \in Phil : ~Ready(m)
               PROVE  FALSE
    BY DEF SomebodyCanGoOn
  <2>1. ~removed
    BY PhilosophersAssumption DEF IInv, MainInv, Phil
  <2>2. \A m \in Phil : at[m] \in {"seated", "thinking", "one", "gone"} \/ (m \in failed /\ at[m] = "unborn")
    BY PhilosophersAssumption DEF Ready, IInv, MainInv, ShapeOK, Phil
  <2>3. at[n] # "seated"
    <3> SUFFICES ASSUME at[n] = "seated" PROVE FALSE
      OBVIOUS
    <3>1. program = "barrier" /\ not_at_table # 0 /\ failed = {}
      BY DEF IInv, TableInv, Ready
    <3>2. Away = {}
      BY <2>2, <3>1 DEF Away
    <3> QED
      BY <3>1, <3>2, FS_EmptySet DEF IInv, TableInv
  <2> DEFINE S == {u \in Phil : utensils[u] = 0}
  <2>4. S # {}
    <3>1. \E u \in Phil : ~CanTake(u)
      BY <2>2, <2>3, UtensilType DEF Ready
    <3> QED
      BY <3>1 DEF CanTake, IInv, ShapeOK
  <2>5. PICK u \in S : \A v \in S : v <= u
    BY <2>4, HighestUtensil
  <2>6. PICK m \in Phil : Holds(m, u)
    BY <2>1 DEF IInv, UtensilInv
  <2>7. at[m] = "one" /\ u = first(m)
    BY <2>2, <2>6 DEF Holds
  <2>8. second(m) \in S
    <3>1. ~CanTake(second(m)) /\ second(m) \in Phil
      BY <2>7, UtensilType DEF Ready
    <3> QED
      BY <3>1 DEF CanTake, IInv, ShapeOK
  <2>9. second(m) <= u /\ u < second(m)
    BY <2>5, <2>7, <2>8, UtensilType
  <2> QED
    BY <2>9, UtensilType, PhilosophersAssumption DEF Phil
<1> QED
  BY <1>1, Invariance, PTL

=============================================================================
